---- MODULE Spec2Model ----
(***************************************************************************)
(* A model of the KISS frame codec (kiss_frame.c), of the APRS digipeater  *)
(* (digipeater.c), of the dispatcher of received frames (direwolf.c) and   *)
(* of the GPIO write to a CM108 (cm108.c) of the TNC.                      *)
(*                                                                         *)
(* Byte strings are sequences of integers 0..255.  Station addresses are   *)
(* text strings ("WIDE2-2"), as in the C code, and packets are records     *)
(* kept on a heap of packet objects addressed by handle (packet_t).        *)
(***************************************************************************)
EXTENDS Integers, Sequences, FiniteSets, TLC

VARIABLES
    kiss_in,      \* block handed to kiss_encapsulate (type byte + data)
    kiss_wire,    \* KISS encoded bytes as they travel to the peer
    kiss_out,     \* block produced by kiss_unwrap
    kiss_pc,      \* "idle", "encoded", "decoded"
    kiss_err,     \* the error messages kiss_unwrap printed
    cfg,          \* save_audio_config_p / save_digi_config_p: read only after start
    now,          \* time(NULL), seconds
    heap,         \* packet objects: handle -> packet
    rx,           \* frame being dispatched: [chan, pp, done], pp = NULL when there is none
    tq,           \* transmit queues: tq[chan][prio] is a FIFO of handles
    dedupe,       \* duplicate-removal history
    digi_count,   \* digi_count[from_chan][to_chan]
    last,         \* history: what the last digipeater() call saw and did
    emitted,      \* history: every digipeated copy queued so far
    disp,         \* app_process_rec_packet: how the frame came in and the calls made for it
    hid,          \* the last cm108_set_gpio_pin call: arguments, what write() was given, result
    thread,       \* dispatcher threads running digipeater(): thread[chan] = [pc, pp, k, m]
    tt            \* touch tone text conversion: [pc, text, buttons, out, errors]

kiss_vars == <<kiss_in, kiss_wire, kiss_out, kiss_pc, kiss_err>>
digi_vars == <<cfg, now, heap, rx, tq, dedupe, digi_count, last, emitted>>
vars == <<kiss_in, kiss_wire, kiss_out, kiss_pc, kiss_err,
          cfg, now, heap, rx, tq, dedupe, digi_count, last, emitted, disp, hid, thread, tt>>

NULL == 0

(***************************************************************************)
(* Bounds of the model.                                                    *)
(***************************************************************************)
MaxKissLen == 4
NumChans == 2
MaxRepeaters == 3
MaxTime == 3
DedupeTime == 2
MaxCalls == 2

(***************************************************************************)
(*                         KISS codec, kiss_frame.c                        *)
(***************************************************************************)
FEND == 192
FESC == 219
TFEND == 220
TFESC == 221

\* The byte values the inputs are drawn from: the four special characters of
\* the protocol and two ordinary bytes (0x00 is an AX.25 data frame on channel 0).
KissBytes == {FEND, FESC, TFEND, TFESC, 0, 1}

RECURSIVE SeqsUpTo(_, _)
SeqsUpTo(S, n) ==
    IF n = 0 THEN {<<>>}
    ELSE LET shorter == SeqsUpTo(S, n - 1)
         IN  shorter \cup {Append(s, b) : s \in {t \in shorter : Len(t) = n - 1}, b \in S}

\* The loop of kiss_encapsulate with FESC copied as it is.
RECURSIVE kiss_encapsulate_loop_fend_only(_, _, _)
kiss_encapsulate_loop_fend_only(in, j, out) ==
    IF j > Len(in) THEN out
    ELSE IF in[j] = FEND THEN kiss_encapsulate_loop_fend_only(in, j + 1, out \o <<FESC, TFEND>>)
    ELSE kiss_encapsulate_loop_fend_only(in, j + 1, Append(out, in[j]))

\* The for loop of kiss_encapsulate: j is the (1-based) index of the next input byte.
RECURSIVE kiss_encapsulate_loop(_, _, _)
kiss_encapsulate_loop(in, j, out) ==
    IF j > Len(in) THEN out
    ELSE IF in[j] = FEND THEN kiss_encapsulate_loop(in, j + 1, out \o <<FESC, TFEND>>)
    ELSE IF in[j] = FESC THEN kiss_encapsulate_loop(in, j + 1, out \o <<FESC, TFESC>>)
    ELSE kiss_encapsulate_loop(in, j + 1, Append(out, in[j]))

\* kiss_encapsulate with the type byte copied as it is and only the bytes after
\* it escaped.
kiss_encapsulate_raw_type(in) ==
    IF Len(in) = 0 THEN <<FEND, FEND>>
    ELSE Append(kiss_encapsulate_loop(in, 2, <<FEND, in[1]>>), FEND)

\* The result is the output buffer; its length is the value the C function returns.
kiss_encapsulate(in) ==
    Append(kiss_encapsulate_loop(in, 1, <<FEND>>), FEND)

\* kiss_unwrap_loop with the byte after a bad FESC copied to the output.
RECURSIVE kiss_unwrap_loop_keep_bad(_, _, _, _, _)
kiss_unwrap_loop_keep_bad(in, ilen, j, escaped_mode, out) ==
    IF j > ilen THEN out
    ELSE IF escaped_mode
         THEN IF in[j] = TFESC THEN kiss_unwrap_loop_keep_bad(in, ilen, j + 1, FALSE, Append(out, FESC))
              ELSE IF in[j] = TFEND THEN kiss_unwrap_loop_keep_bad(in, ilen, j + 1, FALSE, Append(out, FEND))
              ELSE kiss_unwrap_loop_keep_bad(in, ilen, j + 1, FALSE, Append(out, in[j]))
         ELSE IF in[j] = FESC THEN kiss_unwrap_loop_keep_bad(in, ilen, j + 1, TRUE, out)
              ELSE kiss_unwrap_loop_keep_bad(in, ilen, j + 1, FALSE, Append(out, in[j]))

\* The for loop of kiss_unwrap.  A FEND in the middle and a bad byte after
\* FESC are only reported; decoding goes on.
RECURSIVE kiss_unwrap_loop(_, _, _, _, _)
kiss_unwrap_loop(in, ilen, j, escaped_mode, out) ==
    IF j > ilen THEN out
    ELSE IF escaped_mode
         THEN IF in[j] = TFESC THEN kiss_unwrap_loop(in, ilen, j + 1, FALSE, Append(out, FESC))
              ELSE IF in[j] = TFEND THEN kiss_unwrap_loop(in, ilen, j + 1, FALSE, Append(out, FEND))
              ELSE kiss_unwrap_loop(in, ilen, j + 1, FALSE, out)
         ELSE IF in[j] = FESC THEN kiss_unwrap_loop(in, ilen, j + 1, TRUE, out)
              ELSE kiss_unwrap_loop(in, ilen, j + 1, FALSE, Append(out, in[j]))

\* The dw_printf calls of the loop of kiss_unwrap, in order: a FEND in the
\* middle, and a byte other than TFEND and TFESC after FESC.
RECURSIVE kiss_unwrap_loop_errors(_, _, _, _, _)
kiss_unwrap_loop_errors(in, ilen, j, escaped_mode, msgs) ==
    IF j > ilen THEN msgs
    ELSE kiss_unwrap_loop_errors(in, ilen, j + 1, ~escaped_mode /\ in[j] = FESC,
             (msgs \o (IF in[j] = FEND THEN <<"KISS frame should not have FEND in the middle.">>
                                      ELSE <<>>))
                  \o (IF escaped_mode /\ in[j] # TFESC /\ in[j] # TFEND
                      THEN <<"KISS protocol error.  Found byte after FESC.">> ELSE <<>>))

\* Every message kiss_unwrap prints for the block in.
kiss_unwrap_errors(in) ==
    IF Len(in) < 2 THEN <<"KISS message less than minimum length.">>
    ELSE kiss_unwrap_loop_errors(in,
             IF in[Len(in)] = FEND THEN Len(in) - 1 ELSE Len(in),
             IF in[1] = FEND THEN 2 ELSE 1,
             FALSE,
             IF in[Len(in)] = FEND THEN <<>> ELSE <<"KISS frame should end with FEND.">>)

\* kiss_unwrap without the skip over the leading FEND.
kiss_unwrap_keep_fend(in) ==
    IF Len(in) < 2 THEN <<>>
    ELSE LET ilen == IF in[Len(in)] = FEND THEN Len(in) - 1 ELSE Len(in)
         IN  kiss_unwrap_loop(in, ilen, 1, FALSE, <<>>)

\* kiss_unwrap giving nothing when the block does not end with FEND.
kiss_unwrap_require_fend(in) ==
    IF Len(in) < 2 \/ in[Len(in)] # FEND THEN <<>>
    ELSE kiss_unwrap_loop(in, Len(in) - 1, IF in[1] = FEND THEN 2 ELSE 1, FALSE, <<>>)

\* "if (ilen < 2) return (0);", the trailing FEND is not processed and a
\* leading FEND is skipped.
kiss_unwrap(in) ==
    IF Len(in) < 2 THEN <<>>
    ELSE LET ilen == IF in[Len(in)] = FEND THEN Len(in) - 1 ELSE Len(in)
             j0   == IF in[1] = FEND THEN 2 ELSE 1
         IN  kiss_unwrap_loop(in, ilen, j0, FALSE, <<>>)

KissInit ==
    /\ kiss_in \in SeqsUpTo(KissBytes, MaxKissLen)
    /\ kiss_wire = <<>>
    /\ kiss_out = <<>>
    /\ kiss_pc = "idle"
    /\ kiss_err = <<>>

\* The TNC sends a block to a client application.
KissEncapsulate ==
    /\ kiss_pc = "idle"
    /\ kiss_wire' = kiss_encapsulate(kiss_in)
    /\ kiss_pc' = "encoded"
    /\ UNCHANGED <<kiss_in, kiss_out, kiss_err>>

\* A client application sends bytes, any bytes, up to the FEND that ends
\* its frame or up to where the line was cut.
KissReceive(wire) ==
    /\ kiss_pc = "idle"
    /\ kiss_wire' = wire
    /\ kiss_pc' = "encoded"
    /\ UNCHANGED <<kiss_in, kiss_out, kiss_err>>

\* The peer takes the frame off the wire.
KissUnwrap ==
    /\ kiss_pc = "encoded"
    /\ kiss_out' = kiss_unwrap(kiss_wire)
    /\ kiss_err' = kiss_unwrap_errors(kiss_wire)
    /\ kiss_pc' = "decoded"
    /\ UNCHANGED <<kiss_in, kiss_wire>>

(***************************************************************************)
(*                  Text handling used for station addresses               *)
(***************************************************************************)
Min(S) == CHOOSE x \in S : \A y \in S : x <= y

CharAt(s, i) == SubSeq(s, i, i)

\* strchr(s, '-'): position of the first '-', 0 if there is none.
DashPos(s) ==
    LET at == {i \in 1..Len(s) : CharAt(s, i) = "-"}
    IN  IF at = {} THEN 0 ELSE Min(at)

IsDigit(c) == \E d \in 0..9 : ToString(d) = c

DigitVal(c) == CHOOSE d \in 0..9 : ToString(d) = c

\* atoi: the leading decimal digits of s from position i on.
RECURSIVE atoi_loop(_, _, _)
atoi_loop(s, i, acc) ==
    IF i > Len(s) \/ ~IsDigit(CharAt(s, i)) THEN acc
    ELSE atoi_loop(s, i + 1, acc * 10 + DigitVal(CharAt(s, i)))

atoi(s) == atoi_loop(s, 1, 0)

\* strcmp(a, b) == 0
strcmp0(a, b) == a = b

LowerCase == "abcdefghijklmnopqrstuvwxyz"
UpperCase == "ABCDEFGHIJKLMNOPQRSTUVWXYZ"

toupper(c) ==
    LET at == {i \in 1..26 : CharAt(LowerCase, i) = c}
    IN  IF at = {} THEN c ELSE CharAt(UpperCase, Min(at))

\* strncasecmp(a, b, n) == 0: the first n characters agree, ignoring case; a
\* string that ends before n characters differs from one that goes on.
strncasecmp0(a, b, n) ==
    \A i \in 1..n :
        IF i > Len(a) \/ i > Len(b)
        THEN i > Len(a) /\ i > Len(b)
        ELSE toupper(CharAt(a, i)) = toupper(CharAt(b, i))

(***************************************************************************)
(* regexec on the compiled patterns of the configuration.  A pattern is    *)
(* an alternation of anchored branches:                                    *)
(*   [k |-> "lit", s |-> "N0CALL"]                      ^N0CALL$           *)
(*   [k |-> "nN", s |-> "WIDE", lo, hi, slo, shi]       ^WIDE[lo-hi]-[slo-shi]$ *)
(* err is the error regexec reports for a pattern it cannot run (0: none). *)
(***************************************************************************)
REG_NOMATCH == 1

BranchMatch(b, string) ==
    IF b.k = "lit" THEN string = b.s
    ELSE \E n \in b.lo..b.hi, m \in b.slo..b.shi :
            string = b.s \o ToString(n) \o "-" \o ToString(m)

\* regexec with an error taken for a match.
regexec_error_is_match(preg, string) ==
    IF preg.err # 0 THEN 0
    ELSE IF \E b \in preg.branches : BranchMatch(b, string) THEN 0
    ELSE REG_NOMATCH

regexec(preg, string) ==
    IF preg.err # 0 THEN preg.err
    ELSE IF \E b \in preg.branches : BranchMatch(b, string) THEN 0
    ELSE REG_NOMATCH

(***************************************************************************)
(*                    AX.25 packet objects (ax25_pad)                      *)
(* A packet is [addrs, control, pid, info]; addrs is the list of addresses *)
(* [call, ssid, h], destination first.  The C code numbers the positions   *)
(* from 0, so position n is addrs[n + 1].                                  *)
(***************************************************************************)
AX25_DESTINATION == 0
AX25_SOURCE == 1
AX25_REPEATER_1 == 2
AX25_MAX_REPEATERS == 8
AX25_MAX_ADDRS == 10

NoPacket == [addrs |-> <<>>, control |-> 0, pid |-> 0, info |-> ""]

\* Parse "CALL-SSID" text into its callsign and SSID.
ax25_parse_addr(in_addr) ==
    LET d == DashPos(in_addr)
    IN  IF d = 0 THEN [call |-> in_addr, ssid |-> 0]
        ELSE [call |-> SubSeq(in_addr, 1, d - 1),
              ssid |-> atoi(SubSeq(in_addr, d + 1, Len(in_addr)))]

\* The handle the next allocated packet object gets.
ax25_new(h) == Min({n \in 1..(Cardinality(DOMAIN h) + 1) : n \notin DOMAIN h})

ax25_dup(h, copy_from) == h @@ (ax25_new(h) :> h[copy_from])

ax25_delete(h, this_p) == [k \in (DOMAIN h) \ {this_p} |-> h[k]]

ax25_get_num_addr(h, this_p) == Len(h[this_p].addrs)

ax25_get_num_repeaters(h, this_p) ==
    IF Len(h[this_p].addrs) >= 2 THEN Len(h[this_p].addrs) - 2 ELSE 0

ax25_get_addr_with_ssid(h, this_p, n) ==
    LET a == h[this_p].addrs[n + 1]
    IN  IF a.ssid # 0 THEN a.call \o "-" \o ToString(a.ssid) ELSE a.call

ax25_get_ssid(h, this_p, n) == h[this_p].addrs[n + 1].ssid

ax25_get_h(h, this_p, n) == h[this_p].addrs[n + 1].h

ax25_set_ssid(h, this_p, n, new_ssid) ==
    [h EXCEPT ![this_p].addrs[n + 1].ssid = new_ssid]

\* Mark the address as "has been repeated".
ax25_set_h(h, this_p, n) ==
    [h EXCEPT ![this_p].addrs[n + 1].h = 1]

\* ax25_insert_addr on a packet object with room for any number of addresses.
ax25_insert_addr_no_limit(h, this_p, n, ad) ==
    LET a == h[this_p].addrs
        p == ax25_parse_addr(ad)
    IN  IF n < AX25_REPEATER_1 \/ n > Len(a)
        THEN h
        ELSE [h EXCEPT ![this_p].addrs =
                SubSeq(a, 1, n) \o <<[call |-> p.call, ssid |-> p.ssid, h |-> 0]>>
                               \o SubSeq(a, n + 1, Len(a))]

\* Insert a new address (not yet repeated) at position n, moving the rest up.
\* Nothing happens when the packet is full or n is not a repeater position.
ax25_insert_addr(h, this_p, n, ad) ==
    LET a == h[this_p].addrs
        p == ax25_parse_addr(ad)
    IN  IF Len(a) >= AX25_MAX_ADDRS \/ n < AX25_REPEATER_1 \/ n >= AX25_MAX_ADDRS
             \/ n > Len(a)
        THEN h
        ELSE [h EXCEPT ![this_p].addrs =
                SubSeq(a, 1, n) \o <<[call |-> p.call, ssid |-> p.ssid, h |-> 0]>>
                               \o SubSeq(a, n + 1, Len(a))]

\* Replace the callsign and SSID at an existing position (the H bit stays),
\* or append when n is one past the end.
ax25_set_addr(h, this_p, n, ad) ==
    LET p == ax25_parse_addr(ad)
    IN  IF n >= 0 /\ n < Len(h[this_p].addrs)
        THEN [h EXCEPT ![this_p].addrs[n + 1].call = p.call,
                       ![this_p].addrs[n + 1].ssid = p.ssid]
        ELSE IF n = Len(h[this_p].addrs) THEN ax25_insert_addr(h, this_p, n, ad)
        ELSE h

\* Remove the address at position n, moving the rest down.
ax25_remove_addr(h, this_p, n) ==
    LET a == h[this_p].addrs
    IN  [h EXCEPT ![this_p].addrs = SubSeq(a, 1, n) \o SubSeq(a, n + 2, Len(a))]

\* Lowest repeater position with H = 0, or -1.
ax25_get_first_not_repeated(h, this_p) ==
    LET unused == {i \in AX25_REPEATER_1..(Len(h[this_p].addrs) - 1) :
                      h[this_p].addrs[i + 1].h = 0}
    IN  IF unused = {} THEN -1 ELSE Min(unused)

\* What the duplicate check compares: source, destination and information
\* part, not the via path.  The 16 bit checksum over them is taken to be
\* free of collisions.
ax25_dedupe_crc(h, this_p) ==
    <<ax25_get_addr_with_ssid(h, this_p, AX25_SOURCE),
      ax25_get_addr_with_ssid(h, this_p, AX25_DESTINATION),
      h[this_p].info>>

(***************************************************************************)
(*                      Duplicate history (dedupe)                         *)
(* Entries [crc, time, chan].  An entry counts while it is younger than    *)
(* the configured time; older ones are dropped when the next is recorded.  *)
(***************************************************************************)
dedupe_young(e, history_time, t) == t - e.time < history_time

dedupe_remember(dd, h, pp, chan, history_time, t) ==
    {e \in dd : dedupe_young(e, history_time, t)
                /\ ~(e.crc = ax25_dedupe_crc(h, pp) /\ e.chan = chan)}
        \cup {[crc |-> ax25_dedupe_crc(h, pp), time |-> t, chan |-> chan]}

dedupe_check(dd, h, pp, chan, history_time, t) ==
    \E e \in dd : /\ e.crc = ax25_dedupe_crc(h, pp)
                  /\ e.chan = chan
                  /\ dedupe_young(e, history_time, t)

(***************************************************************************)
(*                         Transmit queues (tq)                            *)
(***************************************************************************)
TQ_PRIO_0_HI == 0
TQ_PRIO_1_LO == 1

tq_append(q, chan, prio, pp) == [q EXCEPT ![chan][prio] = Append(@, pp)]

\* Packet filter, for the budlist expression "b/CALL": 1 (pass) when the
\* source address is CALL, else 0.  NO_FILTER stands for the NULL pointer of
\* a direction that has no filter.
NO_FILTER == "(null)"

pfilter(h, from_chan, to_chan, filter_str, pp) ==
    IF Len(filter_str) > 2 /\ SubSeq(filter_str, 1, 2) = "b/"
       /\ SubSeq(filter_str, 3, Len(filter_str)) = ax25_get_addr_with_ssid(h, pp, AX25_SOURCE)
    THEN 1 ELSE 0

(***************************************************************************)
(*                      digipeat_match, digipeater.c                       *)
(* Every step of digipeat_match works on the heap h and gives back         *)
(* [h, result]: the heap afterwards and the handle of the packet to        *)
(* transmit, or NULL.                                                      *)
(***************************************************************************)
PREEMPT_OFF == "OFF"
PREEMPT_DROP == "DROP"
PREEMPT_MARK == "MARK"
PREEMPT_TRACE == "TRACE"

\* digipeat_replace without the ax25_dup: the received packet itself is
\* changed and handed back.
digipeat_replace_in_place(h, pp, r, mycall_xmit) ==
    [h |-> ax25_set_h(ax25_set_addr(h, pp, r, mycall_xmit), pp, r), result |-> pp]

\* "result = ax25_dup (pp); ax25_set_addr (result, r, mycall_xmit);
\*  ax25_set_h (result, r); return (result);"
\* The same four statements serve my call, the alias and WIDEn-1.
digipeat_replace(h, pp, r, mycall_xmit) ==
    LET result == ax25_new(h)
    IN  [h |-> ax25_set_h(ax25_set_addr(ax25_dup(h, pp), result, r, mycall_xmit), result, r),
         result |-> result]

\* case PREEMPT_DROP: while (r2 > AX25_REPEATER_1) { remove r2-1; r2--; }
RECURSIVE preempt_drop_loop(_, _, _)
preempt_drop_loop(h, result, r2) ==
    IF r2 > AX25_REPEATER_1
    THEN preempt_drop_loop(ax25_remove_addr(h, result, r2 - 1), result, r2 - 1)
    ELSE h

\* case PREEMPT_MARK: r2--; while (r2 >= AX25_REPEATER_1 && h(r2) == 0) { set h; r2--; }
\* (r2 is the value after the first r2--.)
RECURSIVE preempt_mark_loop(_, _, _)
preempt_mark_loop(h, result, r2) ==
    IF r2 >= AX25_REPEATER_1 /\ ax25_get_h(h, result, r2) = 0
    THEN preempt_mark_loop(ax25_set_h(h, result, r2), result, r2 - 1)
    ELSE h

\* case PREEMPT_TRACE, default:
\* while (r2 > AX25_REPEATER_1 && h(r2-1) == 0) { remove r2-1; r2--; }
RECURSIVE preempt_trace_loop(_, _, _)
preempt_trace_loop(h, result, r2) ==
    IF r2 > AX25_REPEATER_1 /\ ax25_get_h(h, result, r2 - 1) = 0
    THEN preempt_trace_loop(ax25_remove_addr(h, result, r2 - 1), result, r2 - 1)
    ELSE h

\* The switch with DROP doing what TRACE does.
preempt_switch_drop_unused(h, result, r2, preempt) ==
    IF preempt = PREEMPT_MARK THEN preempt_mark_loop(h, result, r2 - 1)
    ELSE preempt_trace_loop(h, result, r2)

\* switch (preempt)
preempt_switch(h, result, r2, preempt) ==
    IF preempt = PREEMPT_DROP THEN preempt_drop_loop(h, result, r2)
    ELSE IF preempt = PREEMPT_MARK THEN preempt_mark_loop(h, result, r2 - 1)
    ELSE preempt_trace_loop(h, result, r2)

\* The body of the pre-empt hit at position r2.
digipeat_preempt(h, pp, r2, mycall_xmit, preempt) ==
    LET result == ax25_new(h)
    IN  [h |-> preempt_switch(
                  ax25_set_h(ax25_set_addr(ax25_dup(h, pp), result, r2, mycall_xmit), result, r2),
                  result, r2, preempt),
         result |-> result]

\* for (r2 = r+1; r2 < num_addr; r2++): the first position after r that is my
\* call or an alias, or -1.
preempt_find(h, pp, r, mycall_rec, alias) ==
    LET hits == {r2 \in (r + 1)..(ax25_get_num_addr(h, pp) - 1) :
                    \/ strcmp0(ax25_get_addr_with_ssid(h, pp, r2), mycall_rec)
                    \/ regexec(alias, ax25_get_addr_with_ssid(h, pp, r2)) = 0}
    IN  IF hits = {} THEN -1 ELSE Min(hits)

\* ATGP: while (num_addr(result) >= 3 && h(result, REPEATER_1) == 1) { remove; r--; }
\* Gives back the heap and the r the loop ends with.
RECURSIVE atgp_remove_used_loop(_, _, _)
atgp_remove_used_loop(h, result, r) ==
    IF ax25_get_num_addr(h, result) >= 3 /\ ax25_get_h(h, result, AX25_REPEATER_1) = 1
    THEN atgp_remove_used_loop(ax25_remove_addr(h, result, AX25_REPEATER_1), result, r - 1)
    ELSE [h |-> h, r |-> r]

\* atgp_decrement that leaves the H bit alone when the SSID gets to 0.
atgp_decrement_h_clear(lp, result, ssid) ==
    ax25_set_ssid(lp.h, result, lp.r, ssid - 1)

\* "ssid = ssid - 1; ax25_set_ssid(result, r, ssid); if (ssid == 0) ax25_set_h (result, r);"
\* lp is what the loop before it left: the heap and r.
atgp_decrement(lp, result, ssid) ==
    IF ssid - 1 = 0
    THEN ax25_set_h(ax25_set_ssid(lp.h, result, lp.r, ssid - 1), result, lp.r)
    ELSE ax25_set_ssid(lp.h, result, lp.r, ssid - 1)

\* The ATGP hack, ssid in 1..7.
digipeat_atgp(h, pp, r, ssid, mycall_xmit) ==
    LET result == ax25_new(h)
    IN  [h |-> ax25_set_h(
                  ax25_insert_addr(
                      atgp_decrement(atgp_remove_used_loop(ax25_dup(h, pp), result, r),
                                     result, ssid),
                      result, AX25_REPEATER_1, mycall_xmit),
                  result, AX25_REPEATER_1),
         result |-> result]

\* digipeat_wide_trace without "ax25_set_ssid(result, r, ssid-1)".
digipeat_wide_trace_no_decrement(h, pp, r, ssid, mycall_xmit) ==
    LET result == ax25_new(h)
    IN  IF ax25_get_num_repeaters(h, pp) < AX25_MAX_REPEATERS
        THEN [h |-> ax25_set_h(ax25_insert_addr(ax25_dup(h, pp), result, r, mycall_xmit),
                               result, r),
              result |-> result]
        ELSE [h |-> ax25_dup(h, pp), result |-> result]

\* digipeat_wide_trace without the test for room.
digipeat_wide_trace_no_room_test(h, pp, r, ssid, mycall_xmit) ==
    LET result == ax25_new(h)
    IN  [h |-> ax25_set_h(
                  ax25_insert_addr(ax25_set_ssid(ax25_dup(h, pp), result, r, ssid - 1),
                                   result, r, mycall_xmit),
                  result, r),
         result |-> result]

\* WIDEn-N with ssid in 2..7: decrement, and trace when there is room.
digipeat_wide_trace(h, pp, r, ssid, mycall_xmit) ==
    LET result == ax25_new(h)
    IN  IF ax25_get_num_repeaters(h, pp) < AX25_MAX_REPEATERS
        THEN [h |-> ax25_set_h(
                       ax25_insert_addr(ax25_set_ssid(ax25_dup(h, pp), result, r, ssid - 1),
                                        result, r, mycall_xmit),
                       result, r),
              result |-> result]
        ELSE [h |-> ax25_set_ssid(ax25_dup(h, pp), result, r, ssid - 1),
              result |-> result]

\* digipeat_wide with "ssid >= 1" in place of "ssid >= 2": WIDEn-1 is traced
\* like WIDEn-2 and up.
digipeat_wide_trace_from_1(h, pp, r, ssid, repeater, mycall_xmit, wide, atgp) ==
    IF regexec(wide, repeater) = 0
    THEN IF Len(atgp) > 0 /\ strncasecmp0(repeater, atgp, Len(atgp))
              /\ ssid >= 1 /\ ssid <= 7
         THEN digipeat_atgp(h, pp, r, ssid, mycall_xmit)
         ELSE IF ssid >= 1 /\ ssid <= 7 THEN digipeat_wide_trace(h, pp, r, ssid, mycall_xmit)
         ELSE [h |-> h, result |-> NULL]
    ELSE [h |-> h, result |-> NULL]

\* digipeat_wide without the upper limit of the SSID.
digipeat_wide_no_upper_limit(h, pp, r, ssid, repeater, mycall_xmit, wide, atgp) ==
    IF regexec(wide, repeater) = 0
    THEN IF Len(atgp) > 0 /\ strncasecmp0(repeater, atgp, Len(atgp))
              /\ ssid >= 1 /\ ssid <= 7
         THEN digipeat_atgp(h, pp, r, ssid, mycall_xmit)
         ELSE IF ssid = 1 THEN digipeat_replace(h, pp, r, mycall_xmit)
         ELSE IF ssid >= 2 THEN digipeat_wide_trace(h, pp, r, ssid, mycall_xmit)
         ELSE [h |-> h, result |-> NULL]
    ELSE [h |-> h, result |-> NULL]

\* "err = regexec(wide,repeater,0,NULL,0); if (err == 0) { ... }"
digipeat_wide(h, pp, r, ssid, repeater, mycall_xmit, wide, atgp) ==
    IF regexec(wide, repeater) = 0
    THEN IF Len(atgp) > 0 /\ strncasecmp0(repeater, atgp, Len(atgp))
              /\ ssid >= 1 /\ ssid <= 7
         THEN digipeat_atgp(h, pp, r, ssid, mycall_xmit)
         ELSE IF ssid = 1 THEN digipeat_replace(h, pp, r, mycall_xmit)
         ELSE IF ssid >= 2 /\ ssid <= 7 THEN digipeat_wide_trace(h, pp, r, ssid, mycall_xmit)
         ELSE [h |-> h, result |-> NULL]
    ELSE [h |-> h, result |-> NULL]

\* The wide rule tried before the pre-empt hit.
digipeat_preempt_or_wide_wide_first(h, pp, r, r2, ssid, repeater, mycall_xmit, wide, preempt, atgp) ==
    IF digipeat_wide(h, pp, r, ssid, repeater, mycall_xmit, wide, atgp).result # NULL
    THEN digipeat_wide(h, pp, r, ssid, repeater, mycall_xmit, wide, atgp)
    ELSE IF preempt # PREEMPT_OFF /\ r2 # -1
    THEN digipeat_preempt(h, pp, r2, mycall_xmit, preempt)
    ELSE [h |-> h, result |-> NULL]

\* "if (preempt != PREEMPT_OFF) { ... }" and what follows; r2 is the pre-empt
\* hit, -1 when there is none.
digipeat_preempt_or_wide(h, pp, r, r2, ssid, repeater, mycall_xmit, wide, preempt, atgp) ==
    IF preempt # PREEMPT_OFF /\ r2 # -1
    THEN digipeat_preempt(h, pp, r2, mycall_xmit, preempt)
    ELSE digipeat_wide(h, pp, r, ssid, repeater, mycall_xmit, wide, atgp)

\* The rules with the wide pattern tried before the alias pattern.
digipeat_rules_wide_first(h, pp, r, ssid, repeater, mycall_rec, mycall_xmit, alias, wide, preempt, atgp) ==
    IF regexec(wide, repeater) = 0
    THEN digipeat_wide(h, pp, r, ssid, repeater, mycall_xmit, wide, atgp)
    ELSE IF regexec(alias, repeater) = 0
    THEN digipeat_replace(h, pp, r, mycall_xmit)
    ELSE digipeat_preempt_or_wide(h, pp, r, preempt_find(h, pp, r, mycall_rec, alias),
                                  ssid, repeater, mycall_xmit, wide, preempt, atgp)

\* From the alias test on: alias, then pre-empt, then wide.
digipeat_rules(h, pp, r, ssid, repeater, mycall_rec, mycall_xmit, alias, wide, preempt, atgp) ==
    IF regexec(alias, repeater) = 0
    THEN digipeat_replace(h, pp, r, mycall_xmit)
    ELSE digipeat_preempt_or_wide(h, pp, r, preempt_find(h, pp, r, mycall_rec, alias),
                                  ssid, repeater, mycall_xmit, wide, preempt, atgp)

\* digipeat_first_unused without the test of the source address.
digipeat_first_unused_no_source_guard(h, dd, history_time, t, pp, r, repeater, ssid, mycall_rec, mycall_xmit, alias, wide, to_chan, preempt, atgp) ==
    IF r < AX25_REPEATER_1 THEN [h |-> h, result |-> NULL]
    ELSE IF strcmp0(repeater, mycall_rec)
    THEN digipeat_replace(h, pp, r, mycall_xmit)
    ELSE IF dedupe_check(dd, h, pp, to_chan, history_time, t)
    THEN [h |-> h, result |-> NULL]
    ELSE digipeat_rules(h, pp, r, ssid, repeater, mycall_rec, mycall_xmit,
                        alias, wide, preempt, atgp)

\* digipeat_first_unused with the duplicate check moved ahead of the test for
\* my call.
digipeat_first_unused_dedupe_first(h, dd, history_time, t, pp, r, repeater, ssid, mycall_rec, mycall_xmit, alias, wide, to_chan, preempt, atgp) ==
    IF r < AX25_REPEATER_1 THEN [h |-> h, result |-> NULL]
    ELSE IF dedupe_check(dd, h, pp, to_chan, history_time, t)
    THEN [h |-> h, result |-> NULL]
    ELSE IF strcmp0(repeater, mycall_rec)
    THEN digipeat_replace(h, pp, r, mycall_xmit)
    ELSE IF strcmp0(ax25_get_addr_with_ssid(h, pp, AX25_SOURCE), mycall_rec)
    THEN [h |-> h, result |-> NULL]
    ELSE digipeat_rules(h, pp, r, ssid, repeater, mycall_rec, mycall_xmit,
                        alias, wide, preempt, atgp)

\* digipeat_first_unused with the duplicate check made for channel 0, whatever
\* to_chan is.
digipeat_first_unused_dedupe_chan_0(h, dd, history_time, t, pp, r, repeater, ssid, mycall_rec, mycall_xmit, alias, wide, to_chan, preempt, atgp) ==
    IF r < AX25_REPEATER_1 THEN [h |-> h, result |-> NULL]
    ELSE IF strcmp0(repeater, mycall_rec)
    THEN digipeat_replace(h, pp, r, mycall_xmit)
    ELSE IF strcmp0(ax25_get_addr_with_ssid(h, pp, AX25_SOURCE), mycall_rec)
    THEN [h |-> h, result |-> NULL]
    ELSE IF dedupe_check(dd, h, pp, 0, history_time, t)
    THEN [h |-> h, result |-> NULL]
    ELSE digipeat_rules(h, pp, r, ssid, repeater, mycall_rec, mycall_xmit,
                        alias, wide, preempt, atgp)

\* From "r = ax25_get_first_not_repeated(pp)" on, with r, the address at r
\* and its SSID.
digipeat_first_unused(h, dd, history_time, t, pp, r, repeater, ssid, mycall_rec, mycall_xmit, alias, wide, to_chan, preempt, atgp) ==
    IF r < AX25_REPEATER_1 THEN [h |-> h, result |-> NULL]
    ELSE IF strcmp0(repeater, mycall_rec)
    THEN digipeat_replace(h, pp, r, mycall_xmit)
    ELSE IF strcmp0(ax25_get_addr_with_ssid(h, pp, AX25_SOURCE), mycall_rec)
    THEN [h |-> h, result |-> NULL]
    ELSE IF dedupe_check(dd, h, pp, to_chan, history_time, t)
    THEN [h |-> h, result |-> NULL]
    ELSE digipeat_rules(h, pp, r, ssid, repeater, mycall_rec, mycall_xmit,
                        alias, wide, preempt, atgp)

\* The address text and SSID at position r; nothing is read when there is no
\* unused repeater.
repeater_at(h, pp, r) == IF r < AX25_REPEATER_1 THEN "" ELSE ax25_get_addr_with_ssid(h, pp, r)

ssid_at(h, pp, r) == IF r < AX25_REPEATER_1 THEN 0 ELSE ax25_get_ssid(h, pp, r)

\* digipeat_match without the packet filter.
digipeat_match_no_filter(h, dd, history_time, t, from_chan, pp, mycall_rec, mycall_xmit, alias, wide, to_chan, preempt, atgp, filter_str) ==
    digipeat_first_unused(h, dd, history_time, t, pp,
        ax25_get_first_not_repeated(h, pp),
        repeater_at(h, pp, ax25_get_first_not_repeated(h, pp)),
        ssid_at(h, pp, ax25_get_first_not_repeated(h, pp)),
        mycall_rec, mycall_xmit, alias, wide, to_chan, preempt, atgp)

\* dd, history_time and t stand for the history of dedupe.c and the clock that
\* dedupe_check reads.
digipeat_match(h, dd, history_time, t, from_chan, pp, mycall_rec, mycall_xmit, alias, wide, to_chan, preempt, atgp, filter_str) ==
    IF filter_str # NO_FILTER /\ pfilter(h, from_chan, to_chan, filter_str, pp) # 1
    THEN [h |-> h, result |-> NULL]
    ELSE digipeat_first_unused(h, dd, history_time, t, pp,
            ax25_get_first_not_repeated(h, pp),
            repeater_at(h, pp, ax25_get_first_not_repeated(h, pp)),
            ssid_at(h, pp, ax25_get_first_not_repeated(h, pp)),
            mycall_rec, mycall_xmit, alias, wide, to_chan, preempt, atgp)

(***************************************************************************)
(*                        digipeater, digipeater.c                         *)
(* st = [heap, dedupe, tq, digi_count, evals] is the state the function    *)
(* works on; evals lists, in order, each call of digipeat_match: the       *)
(* channel, the queue, the packet it was given and what came back.         *)
(***************************************************************************)
\* digipeater_result without the call of dedupe_remember.
digipeater_result_no_remember(c, st, t, from_chan, pp, to_chan, prio, m) ==
    IF m.result # NULL
    THEN [heap |-> m.h,
          dedupe |-> st.dedupe,
          tq |-> tq_append(st.tq, to_chan, prio, m.result),
          digi_count |-> [st.digi_count EXCEPT ![from_chan][to_chan] = @ + 1],
          evals |-> Append(st.evals,
                      [to_chan |-> to_chan, prio |-> prio, seen |-> st.heap[pp],
                       result |-> m.result, out |-> m.h[m.result]])]
    ELSE [st EXCEPT !.heap = m.h,
                    !.evals = Append(st.evals,
                      [to_chan |-> to_chan, prio |-> prio, seen |-> st.heap[pp],
                       result |-> NULL, out |-> NoPacket])]

\* digipeater_result with dedupe_remember called for every to_chan that was
\* evaluated, whether digipeat_match gave a packet back or not.
digipeater_result_remember_always(c, st, t, from_chan, pp, to_chan, prio, m) ==
    IF m.result # NULL
    THEN [heap |-> m.h,
          dedupe |-> dedupe_remember(st.dedupe, m.h, pp, to_chan, c.dedupe_time, t),
          tq |-> tq_append(st.tq, to_chan, prio, m.result),
          digi_count |-> [st.digi_count EXCEPT ![from_chan][to_chan] = @ + 1],
          evals |-> Append(st.evals,
                      [to_chan |-> to_chan, prio |-> prio, seen |-> st.heap[pp],
                       result |-> m.result, out |-> m.h[m.result]])]
    ELSE [st EXCEPT !.heap = m.h,
                    !.dedupe = dedupe_remember(st.dedupe, m.h, pp, to_chan, c.dedupe_time, t),
                    !.evals = Append(st.evals,
                      [to_chan |-> to_chan, prio |-> prio, seen |-> st.heap[pp],
                       result |-> NULL, out |-> NoPacket])]

\* digipeater_result without the count.
digipeater_result_no_count(c, st, t, from_chan, pp, to_chan, prio, m) ==
    IF m.result # NULL
    THEN [heap |-> m.h,
          dedupe |-> dedupe_remember(st.dedupe, m.h, pp, to_chan, c.dedupe_time, t),
          tq |-> tq_append(st.tq, to_chan, prio, m.result),
          digi_count |-> st.digi_count,
          evals |-> Append(st.evals,
                      [to_chan |-> to_chan, prio |-> prio, seen |-> st.heap[pp],
                       result |-> m.result, out |-> m.h[m.result]])]
    ELSE [st EXCEPT !.heap = m.h,
                    !.evals = Append(st.evals,
                      [to_chan |-> to_chan, prio |-> prio, seen |-> st.heap[pp],
                       result |-> NULL, out |-> NoPacket])]

\* "if (result != NULL) { dedupe_remember (pp, to_chan); tq_append (to_chan,
\*  prio, result); digi_count[from_chan][to_chan]++; }", m being what
\* digipeat_match gave back.
digipeater_result(c, st, t, from_chan, pp, to_chan, prio, m) ==
    IF m.result # NULL
    THEN [heap |-> m.h,
          dedupe |-> dedupe_remember(st.dedupe, m.h, pp, to_chan, c.dedupe_time, t),
          tq |-> tq_append(st.tq, to_chan, prio, m.result),
          digi_count |-> [st.digi_count EXCEPT ![from_chan][to_chan] = @ + 1],
          evals |-> Append(st.evals,
                      [to_chan |-> to_chan, prio |-> prio, seen |-> st.heap[pp],
                       result |-> m.result, out |-> m.h[m.result]])]
    ELSE [st EXCEPT !.heap = m.h,
                    !.evals = Append(st.evals,
                      [to_chan |-> to_chan, prio |-> prio, seen |-> st.heap[pp],
                       result |-> NULL, out |-> NoPacket])]

\* digipeater_try with every result put on the high priority queue.
digipeater_try_all_hi(c, st, t, from_chan, pp, to_chan, prio) ==
    digipeater_result(c, st, t, from_chan, pp, to_chan, TQ_PRIO_0_HI,
        digipeat_match(st.heap, st.dedupe, c.dedupe_time, t, from_chan, pp,
                       c.mycall[from_chan], c.mycall[to_chan],
                       c.alias[from_chan][to_chan], c.wide[from_chan][to_chan],
                       to_chan, c.preempt[from_chan][to_chan],
                       c.atgp[from_chan][to_chan], c.filter_str[from_chan][to_chan]))

\* One call of digipeat_match for to_chan and the statements after it.
digipeater_try(c, st, t, from_chan, pp, to_chan, prio) ==
    digipeater_result(c, st, t, from_chan, pp, to_chan, prio,
        digipeat_match(st.heap, st.dedupe, c.dedupe_time, t, from_chan, pp,
                       c.mycall[from_chan], c.mycall[to_chan],
                       c.alias[from_chan][to_chan], c.wide[from_chan][to_chan],
                       to_chan, c.preempt[from_chan][to_chan],
                       c.atgp[from_chan][to_chan], c.filter_str[from_chan][to_chan]))

\* The first pass with its results put on the low priority queue.
RECURSIVE digipeater_pass1_lo(_, _, _, _, _, _)
digipeater_pass1_lo(c, st, t, from_chan, pp, to_chan) ==
    IF to_chan >= NumChans THEN st
    ELSE IF c.enabled[from_chan][to_chan] /\ to_chan = from_chan
    THEN digipeater_pass1_lo(c, digipeater_try(c, st, t, from_chan, pp, to_chan, TQ_PRIO_1_LO),
                             t, from_chan, pp, to_chan + 1)
    ELSE digipeater_pass1_lo(c, st, t, from_chan, pp, to_chan + 1)

\* First pass: to_chan == from_chan, high priority queue.
RECURSIVE digipeater_pass1(_, _, _, _, _, _)
digipeater_pass1(c, st, t, from_chan, pp, to_chan) ==
    IF to_chan >= NumChans THEN st
    ELSE IF c.enabled[from_chan][to_chan] /\ to_chan = from_chan
    THEN digipeater_pass1(c, digipeater_try(c, st, t, from_chan, pp, to_chan, TQ_PRIO_0_HI),
                          t, from_chan, pp, to_chan + 1)
    ELSE digipeater_pass1(c, st, t, from_chan, pp, to_chan + 1)

\* Second pass: to_chan != from_chan, low priority queue.
RECURSIVE digipeater_pass2(_, _, _, _, _, _)
digipeater_pass2(c, st, t, from_chan, pp, to_chan) ==
    IF to_chan >= NumChans THEN st
    ELSE IF c.enabled[from_chan][to_chan] /\ to_chan # from_chan
    THEN digipeater_pass2(c, digipeater_try(c, st, t, from_chan, pp, to_chan, TQ_PRIO_1_LO),
                          t, from_chan, pp, to_chan + 1)
    ELSE digipeater_pass2(c, st, t, from_chan, pp, to_chan + 1)

\* One loop over to_chan in channel order that takes the same and the other
\* channels as they come.
RECURSIVE digipeater_one_loop(_, _, _, _, _, _)
digipeater_one_loop(c, st, t, from_chan, pp, to_chan) ==
    IF to_chan >= NumChans THEN st
    ELSE IF c.enabled[from_chan][to_chan]
    THEN digipeater_one_loop(c,
             digipeater_try(c, st, t, from_chan, pp, to_chan,
                 IF to_chan = from_chan THEN TQ_PRIO_0_HI ELSE TQ_PRIO_1_LO),
             t, from_chan, pp, to_chan + 1)
    ELSE digipeater_one_loop(c, st, t, from_chan, pp, to_chan + 1)

digipeater_one_pass(c, st, t, from_chan, pp) ==
    digipeater_one_loop(c, st, t, from_chan, pp, 0)

digipeater(c, st, t, from_chan, pp) ==
    digipeater_pass2(c, digipeater_pass1(c, st, t, from_chan, pp, 0), t, from_chan, pp, 0)

(***************************************************************************)
(*                     Stations, packets and configurations                *)
(***************************************************************************)
Chans == 0..(NumChans - 1)

\* MYCALL of each channel: N0CALL-1, N0CALL-2, ...
MyCall(chan) == "N0CALL-" \o ToString(chan + 1)

\* The same call as an address of a packet, used (hbit = 1) or not.
MyCallAddr(chan, hbit) == [call |-> "N0CALL", ssid |-> chan + 1, h |-> hbit]

Addr(call, ssid, hbit) == [call |-> call, ssid |-> ssid, h |-> hbit]

\* A UI frame with PID 0xF0 (APRS).
Packet(src, path, info) ==
    [addrs |-> <<Addr("B", 0, 0), src>> \o path, control |-> 3, pid |-> 240, info |-> info]

\* ^N0CALL$
AliasPattern == [branches |-> {[k |-> "lit", s |-> "N0CALL"]}, err |-> 0]

\* ^WIDE[1-7]-[1-7]$
WidePattern ==
    [branches |-> {[k |-> "nN", s |-> "WIDE", lo |-> 1, hi |-> 7, slo |-> 1, shi |-> 7]},
     err |-> 0]

Config(enabled, preempt, atgp, filter_str) ==
    [mycall      |-> [c \in Chans |-> MyCall(c)],
     dedupe_time |-> DedupeTime,
     enabled     |-> enabled,
     alias       |-> [f \in Chans |-> [t \in Chans |-> AliasPattern]],
     wide        |-> [f \in Chans |-> [t \in Chans |-> WidePattern]],
     preempt     |-> [f \in Chans |-> [t \in Chans |-> preempt]],
     atgp        |-> [f \in Chans |-> [t \in Chans |-> atgp]],
     filter_str  |-> [f \in Chans |-> [t \in Chans |-> filter_str]]]

AllEnabled == [f \in Chans |-> [t \in Chans |-> TRUE]]

\* The repeater addresses paths are built from: my call on channel 0, an
\* alias, WIDE1-1, WIDE2-2 and a station that matches nothing, each one used
\* (H = 1) or not.
RepeaterAddrs ==
    {Addr(a[1], a[2], hbit) :
        a \in {<<"N0CALL", 1>>, <<"N0CALL", 0>>, <<"WIDE1", 1>>, <<"WIDE2", 2>>, <<"FOO", 0>>},
        hbit \in {0, 1}}

RECURSIVE UsedFill(_)
UsedFill(k) == IF k = 0 THEN <<>> ELSE Append(UsedFill(k - 1), Addr("BAR", 0, 1))

\* Every path of up to MaxRepeaters repeaters.
ShortPaths == SeqsUpTo(RepeaterAddrs, MaxRepeaters)

\* Paths of 7 and 8 repeaters: used repeaters followed by one or two addresses.
LongPaths ==
    UNION {{UsedFill(k) \o p :
               p \in {q \in SeqsUpTo(RepeaterAddrs, 2) :
                         Len(q) >= 1 /\ k + Len(q) >= AX25_MAX_REPEATERS - 1
                                     /\ k + Len(q) <= AX25_MAX_REPEATERS}} :
           k \in (AX25_MAX_REPEATERS - 3)..(AX25_MAX_REPEATERS - 1)}

RECURSIVE UnusedFill(_)
UnusedFill(k) == IF k = 0 THEN <<>> ELSE Append(UnusedFill(k - 1), Addr("FOO", 0, 0))

\* Paths of 8 repeaters none of which has been used.
FullPaths ==
    {<<a>> \o UnusedFill(AX25_MAX_REPEATERS - 1) : a \in {x \in RepeaterAddrs : x.h = 0}}

SourceA == Addr("A", 0, 0)
SourceMe == Addr("N0CALL", 1, 0)

\* No frame is being dispatched.
NoDispatch == [subchan |-> 0, fec_type |-> "fec_type_none", retries |-> "RETRY_NONE",
               calls |-> <<>>]

NoCall == [from_chan |-> 0, pp |-> NULL, before |-> NoPacket, dedupe |-> {},
           emitted |-> {}, now |-> 0, evals |-> <<>>]

TotalCount(dc) ==
    LET RECURSIVE Sum(_)
        Sum(S) == IF S = {} THEN 0
                  ELSE LET x == CHOOSE y \in S : TRUE
                       IN  dc[x[1]][x[2]] + Sum(S \ {x})
    IN  Sum(Chans \X Chans)

\* The history of queued copies: for each receiving channel, output channel
\* and received packet, when a digipeated copy of it was last queued.
Emitted(em, from_chan, pkt, t, evals) ==
    LET new == {[from_chan |-> from_chan, to_chan |-> evals[i].to_chan,
                 pkt |-> pkt, time |-> t] :
                   i \in {j \in 1..Len(evals) : evals[j].result # NULL}}
    IN  {x \in em : ~\E y \in new : /\ y.from_chan = x.from_chan
                                    /\ y.to_chan = x.to_chan
                                    /\ y.pkt = x.pkt}
          \cup new

\* cm108_set_gpio_pin has not been called.
NoGpio == [name |-> "", num |-> 0, state |-> 0, opened |-> FALSE, io |-> <<>>, ret |-> 0]

\* No dispatcher thread is inside digipeater().
NoThreads == [c \in Chans |-> [pc |-> "idle", pp |-> NULL, k |-> 0, m |-> NULL]]

\* No text is being converted to or from touch tone buttons.
NoTouchTone == [pc |-> "idle", text |-> <<>>, buttons |-> <<>>, out |-> <<>>, errors |-> 0]

(***************************************************************************)
(*                      The digipeater as a state machine                  *)
(***************************************************************************)
DigiIdle ==
    /\ now = 0
    /\ heap = <<>>
    /\ rx = [chan |-> 0, pp |-> NULL, done |-> FALSE]
    /\ tq = [c \in Chans |-> [p \in {TQ_PRIO_0_HI, TQ_PRIO_1_LO} |-> <<>>]]
    /\ dedupe = {}
    /\ digi_count = [f \in Chans |-> [t \in Chans |-> 0]]
    /\ last = NoCall
    /\ emitted = {}
    /\ disp = NoDispatch
    /\ hid = NoGpio
    /\ thread = NoThreads
    /\ tt = NoTouchTone

\* A frame arrives from the receive queue on channel chan.
Receive(chan, pkt) ==
    /\ rx.pp = NULL
    /\ TotalCount(digi_count) < MaxCalls
    /\ rx' = [chan |-> chan, pp |-> ax25_new(heap), done |-> FALSE]
    /\ heap' = heap @@ (ax25_new(heap) :> pkt)
    /\ UNCHANGED <<cfg, now, tq, dedupe, digi_count, last, emitted>>

\* The state after digipeater() has come back with st.
DigipeaterReturns(st) ==
    /\ heap' = st.heap
    /\ dedupe' = st.dedupe
    /\ tq' = st.tq
    /\ digi_count' = st.digi_count
    /\ last' = [from_chan |-> rx.chan, pp |-> rx.pp, before |-> heap[rx.pp],
                dedupe |-> dedupe, emitted |-> emitted, now |-> now,
                evals |-> st.evals]
    /\ emitted' = Emitted(emitted, rx.chan, heap[rx.pp], now, st.evals)

\* digipeater (from_chan, pp)
Digipeater ==
    /\ rx.pp # NULL
    /\ ~rx.done
    /\ DigipeaterReturns(
          digipeater(cfg,
                     [heap |-> heap, dedupe |-> dedupe, tq |-> tq,
                      digi_count |-> digi_count, evals |-> <<>>],
                     now, rx.chan, rx.pp))
    /\ rx' = [rx EXCEPT !.done = TRUE]
    /\ UNCHANGED <<cfg, now>>

\* The dispatcher is done with the frame and frees it.
Release ==
    /\ rx.pp # NULL
    /\ rx.done
    /\ heap' = ax25_delete(heap, rx.pp)
    /\ rx' = [chan |-> 0, pp |-> NULL, done |-> FALSE]
    /\ last' = NoCall
    /\ UNCHANGED <<cfg, now, tq, dedupe, digi_count, emitted>>

\* The transmit thread of a channel takes the next packet, high priority
\* first, sends it and frees it.
Transmit(chan) ==
    /\ LET prio == IF tq[chan][TQ_PRIO_0_HI] # <<>> THEN TQ_PRIO_0_HI ELSE TQ_PRIO_1_LO
       IN  /\ tq[chan][prio] # <<>>
           /\ tq' = [tq EXCEPT ![chan][prio] = Tail(@)]
           /\ heap' = ax25_delete(heap, Head(tq[chan][prio]))
    /\ UNCHANGED <<cfg, now, rx, dedupe, digi_count, last, emitted>>

\* A second passes.  Only digipeater() reads the clock, and it runs in one
\* step, so the seconds that pass while a frame is being dispatched are
\* left out.
Tick ==
    /\ rx.pp = NULL
    /\ now < MaxTime
    /\ now' = now + 1
    /\ UNCHANGED <<cfg, heap, rx, tq, dedupe, digi_count, last, emitted>>

KissIdle ==
    /\ kiss_in = <<>>
    /\ kiss_wire = <<>>
    /\ kiss_out = <<>>
    /\ kiss_pc = "idle"
    /\ kiss_err = <<>>

\* What the running digipeater receives: a WIDE1-1 packet, the same packet by
\* another path, the same packet sent explicitly via my call, and a packet
\* with another information part.
DigiInputs ==
    {Packet(SourceA, <<Addr("WIDE1", 1, 0)>>, "hi"),
     Packet(SourceA, <<Addr("BAR", 0, 1), Addr("WIDE2", 2, 0)>>, "hi"),
     Packet(SourceA, <<Addr("N0CALL", 1, 0)>>, "hi"),
     Packet(SourceA, <<Addr("WIDE1", 1, 0)>>, "yo")}

\* Channel f is digipeated to the channels up to f.
LowerEnabled == [f \in Chans |-> [t \in Chans |-> t <= f]]

\* The third configuration has a filter that passes only packets of
\* station Z, which sends none.
DigiConfigs ==
    {Config(en, PREEMPT_TRACE, "", NO_FILTER) : en \in {AllEnabled, LowerEnabled}}
        \cup {Config(LowerEnabled, PREEMPT_TRACE, "", "b/Z")}

Init ==
    /\ KissIdle
    /\ cfg \in DigiConfigs
    /\ DigiIdle

Next ==
    \/ \E chan \in Chans, pkt \in DigiInputs : Receive(chan, pkt) /\ UNCHANGED <<kiss_vars, disp, hid, thread, tt>>
    \/ Digipeater /\ UNCHANGED <<kiss_vars, disp, hid, thread, tt>>
    \/ Release /\ UNCHANGED <<kiss_vars, disp, hid, thread, tt>>
    \/ \E chan \in Chans : Transmit(chan) /\ UNCHANGED <<kiss_vars, disp, hid, thread, tt>>
    \/ Tick /\ UNCHANGED <<kiss_vars, disp, hid, thread, tt>>

Spec == Init /\ [][Next]_vars

(***************************************************************************)
(*        The running digipeater with a filter on one output channel       *)
(***************************************************************************)
\* Everything that goes to channel 0 is filtered, and the filter passes only
\* packets of station Z, which sends none; the other channels have no
\* filter.
FilterConfigs ==
    {[Config(AllEnabled, PREEMPT_TRACE, "", NO_FILTER)
         EXCEPT !.filter_str = [f \in Chans |-> [t \in Chans |->
                                   IF t = 0 THEN "b/Z" ELSE NO_FILTER]]]}

InitFilter ==
    /\ KissIdle
    /\ cfg \in FilterConfigs
    /\ DigiIdle

SpecFilter == InitFilter /\ [][Next]_vars

(***************************************************************************)
(*   The running digipeater with both kinds of traffic for one channel     *)
(***************************************************************************)
\* Channel 0 is digipeated to itself, and every other channel to channel 0.
ToFirstEnabled == [f \in Chans |-> [t \in Chans |-> t = 0]]

QueueConfigs == {Config(ToFirstEnabled, PREEMPT_TRACE, "", NO_FILTER)}

InitQueue ==
    /\ KissIdle
    /\ cfg \in QueueConfigs
    /\ DigiIdle

SpecQueue == InitQueue /\ [][Next]_vars

(***************************************************************************)
(*      The running digipeater with patterns that regexec cannot run       *)
(***************************************************************************)
\* The error regexec reports for the patterns that fail: REG_ESPACE.
REG_ESPACE == 12

\* Pattern preg failing in regexec with error err.
Failing(preg, err) == [preg EXCEPT !.err = err]

\* The alias pattern fails, the wide pattern fails, or both do.
RegexConfigs ==
    {[Config(LowerEnabled, PREEMPT_TRACE, "", NO_FILTER)
         EXCEPT !.alias = [f \in Chans |-> [t \in Chans |-> Failing(AliasPattern, ea)]],
                !.wide = [f \in Chans |-> [t \in Chans |-> Failing(WidePattern, ew)]]] :
        ea \in {0, REG_ESPACE}, ew \in {0, REG_ESPACE}} \ {Config(LowerEnabled, PREEMPT_TRACE, "", NO_FILTER)}

\* A WIDE1-1 packet, a packet via the alias, a packet with my call further
\* down the path, and a WIDE1-1 packet with another information part.
RegexInputs ==
    {Packet(SourceA, <<Addr("WIDE1", 1, 0)>>, "hi"),
     Packet(SourceA, <<Addr("N0CALL", 0, 0)>>, "hi"),
     Packet(SourceA, <<Addr("FOO", 0, 0), Addr("N0CALL", 1, 0)>>, "hi"),
     Packet(SourceA, <<Addr("WIDE1", 1, 0)>>, "yo")}

InitRegex ==
    /\ KissIdle
    /\ cfg \in RegexConfigs
    /\ DigiIdle

NextRegex ==
    \/ \E chan \in Chans, pkt \in RegexInputs : Receive(chan, pkt) /\ UNCHANGED <<kiss_vars, disp, hid, thread, tt>>
    \/ Digipeater /\ UNCHANGED <<kiss_vars, disp, hid, thread, tt>>
    \/ Release /\ UNCHANGED <<kiss_vars, disp, hid, thread, tt>>
    \/ \E chan \in Chans : Transmit(chan) /\ UNCHANGED <<kiss_vars, disp, hid, thread, tt>>
    \/ Tick /\ UNCHANGED <<kiss_vars, disp, hid, thread, tt>>

SpecRegex == InitRegex /\ [][NextRegex]_vars

(***************************************************************************)
(*         One frame, of every shape, through the digipeater               *)
(* A frame has arrived on channel 0 of a digipeater that has just started. *)
(***************************************************************************)
\* ^(N0CALL|WIDE2-2)$: an alias that the wide pattern matches as well.
AliasWidePattern ==
    [branches |-> {[k |-> "lit", s |-> "N0CALL"], [k |-> "lit", s |-> "WIDE2-2"]}, err |-> 0]

\* Every pre-empt policy, the ATGP hack, a filter that passes only what
\* N0CALL-1 sent, and an alias that is a WIDEn-N address too.
MatchConfigs ==
    {Config(AllEnabled, pre, "", NO_FILTER) :
        pre \in {PREEMPT_OFF, PREEMPT_DROP, PREEMPT_MARK, PREEMPT_TRACE}}
      \cup {Config(AllEnabled, PREEMPT_OFF, "WIDE1", NO_FILTER),
            Config(AllEnabled, PREEMPT_OFF, "WIDE2", NO_FILTER),
            Config(AllEnabled, PREEMPT_OFF, "", "b/N0CALL-1"),
            [Config(AllEnabled, PREEMPT_OFF, "", NO_FILTER)
                EXCEPT !.alias = [f \in Chans |-> [t \in Chans |-> AliasWidePattern]]]}

MatchInputs ==
    {Packet(SourceA, path, "hi") : path \in ShortPaths \cup LongPaths \cup FullPaths}
      \cup {Packet(SourceMe, path, "hi") : path \in SeqsUpTo(RepeaterAddrs, MaxRepeaters - 1)}

InitMatch ==
    /\ KissIdle
    /\ cfg \in MatchConfigs
    /\ now = 0
    /\ \E pkt \in MatchInputs : heap = (1 :> pkt)
    /\ rx = [chan |-> 0, pp |-> 1, done |-> FALSE]
    /\ tq = [c \in Chans |-> [p \in {TQ_PRIO_0_HI, TQ_PRIO_1_LO} |-> <<>>]]
    /\ dedupe = {}
    /\ digi_count = [f \in Chans |-> [t \in Chans |-> 0]]
    /\ last = NoCall
    /\ emitted = {}
    /\ disp = NoDispatch
    /\ hid = NoGpio
    /\ thread = NoThreads
    /\ tt = NoTouchTone

NextMatch ==
    \/ Digipeater /\ UNCHANGED <<kiss_vars, disp, hid, thread, tt>>
    \/ Release /\ UNCHANGED <<kiss_vars, disp, hid, thread, tt>>

SpecMatch == InitMatch /\ [][NextMatch]_vars

(***************************************************************************)
(*      One frame through a digipeater whose wide pattern is loose         *)
(***************************************************************************)
\* ^WIDE[1-7](-([1-9]|1[0-5]))?$: the wide pattern without a limit on the
\* SSID; only WIDE2 of the addresses without SSID is in the model.
LooseWidePattern ==
    [branches |-> {[k |-> "nN", s |-> "WIDE", lo |-> 1, hi |-> 7, slo |-> 1, shi |-> 15],
                   [k |-> "lit", s |-> "WIDE2"]},
     err |-> 0]

\* Pre-empting off and on, the ATGP hack off and on.
RuleConfigs ==
    {[Config(AllEnabled, pre, atgp, NO_FILTER)
         EXCEPT !.wide = [f \in Chans |-> [t \in Chans |-> LooseWidePattern]]] :
        pre \in {PREEMPT_OFF, PREEMPT_TRACE}, atgp \in {"", "WIDE2"}}

\* WIDE2 with SSID 0, 7 and 8, WIDE1-1, my call on channel 0, the alias and
\* a station that matches nothing, each one used or not.
RuleAddrs ==
    {Addr(a[1], a[2], hbit) :
        a \in {<<"WIDE2", 0>>, <<"WIDE2", 7>>, <<"WIDE2", 8>>, <<"WIDE1", 1>>,
               <<"N0CALL", 1>>, <<"N0CALL", 0>>, <<"FOO", 0>>},
        hbit \in {0, 1}}

RuleInputs == {Packet(SourceA, path, "hi") : path \in SeqsUpTo(RuleAddrs, MaxRepeaters - 1)}

InitRule ==
    /\ KissIdle
    /\ cfg \in RuleConfigs
    /\ now = 0
    /\ \E pkt \in RuleInputs : heap = (1 :> pkt)
    /\ rx = [chan |-> 0, pp |-> 1, done |-> FALSE]
    /\ tq = [c \in Chans |-> [p \in {TQ_PRIO_0_HI, TQ_PRIO_1_LO} |-> <<>>]]
    /\ dedupe = {}
    /\ digi_count = [f \in Chans |-> [t \in Chans |-> 0]]
    /\ last = NoCall
    /\ emitted = {}
    /\ disp = NoDispatch
    /\ hid = NoGpio
    /\ thread = NoThreads
    /\ tt = NoTouchTone

SpecRule == InitRule /\ [][NextMatch]_vars

(***************************************************************************)
(*                      The KISS codec on its own                          *)
(***************************************************************************)
InitKiss ==
    /\ KissInit
    /\ cfg = Config(AllEnabled, PREEMPT_OFF, "", NO_FILTER)
    /\ DigiIdle

NextKiss ==
    \/ KissEncapsulate /\ UNCHANGED <<digi_vars, disp, hid, thread, tt>>
    \/ KissUnwrap /\ UNCHANGED <<digi_vars, disp, hid, thread, tt>>

SpecKiss == InitKiss /\ [][NextKiss]_vars

\* The decoder on its own, given whatever a client sends.
InitUnwrap ==
    /\ KissIdle
    /\ cfg = Config(AllEnabled, PREEMPT_OFF, "", NO_FILTER)
    /\ DigiIdle

NextUnwrap ==
    \/ /\ kiss_pc = "idle"
       /\ \E wire \in SeqsUpTo(KissBytes, MaxKissLen + 1) :
             KissReceive(wire) /\ UNCHANGED <<digi_vars, disp, hid, thread, tt>>
    \/ KissUnwrap /\ UNCHANGED <<digi_vars, disp, hid, thread, tt>>

SpecUnwrap == InitUnwrap /\ [][NextUnwrap]_vars

(***************************************************************************)
(*              The dispatcher: app_process_rec_packet                     *)
(* From the fan-out to the client applications to the end.  The IGate,     *)
(* the APRStt gateway and the connected-mode digipeater are other modules: *)
(* of them the model keeps the calls, in order, in disp.calls.             *)
(***************************************************************************)
\* Channels from MAX_RADIO_CHANS up are virtual: the last channel of the
\* model is one.
MAX_RADIO_CHANS == NumChans - 1

FecTypes == {"fec_type_none", "fec_type_fx25", "fec_type_il2p"}

\* RETRY_INVERT_SINGLE stands for every level of bit fixing and for passall.
Retries == {"RETRY_NONE", "RETRY_INVERT_SINGLE"}

\* The test of every consumer with CRC passed for all frames.
crc_ok_passall(fec_type, retries) == TRUE

\* "retries == RETRY_NONE || fec_type == fec_type_fx25 ||
\*  fec_type == fec_type_il2p"
crc_ok(fec_type, retries) ==
    \/ retries = "RETRY_NONE"
    \/ fec_type = "fec_type_fx25"
    \/ fec_type = "fec_type_il2p"

\* UI frame with protocol id 0xF0.
ax25_is_aprs(h, pp) == h[pp].control = 3 /\ h[pp].pid = 240

ax25_get_info(h, pp) == h[pp].info

\* The loop of digi_regen with the copies put on the high priority queue.
RECURSIVE digi_regen_loop_hi(_, _, _, _, _)
digi_regen_loop_hi(c, st, from_chan, pp, to_chan) ==
    IF to_chan >= NumChans THEN st
    ELSE IF c.regen[from_chan][to_chan]
    THEN digi_regen_loop_hi(c,
             [st EXCEPT !.heap = ax25_dup(st.heap, pp),
                        !.tq = tq_append(st.tq, to_chan, TQ_PRIO_0_HI, ax25_new(st.heap))],
             from_chan, pp, to_chan + 1)
    ELSE digi_regen_loop_hi(c, st, from_chan, pp, to_chan + 1)

\* The loop of digi_regen: a copy of pp to the low priority queue of every
\* to_chan that has regen[from_chan][to_chan] set.
RECURSIVE digi_regen_loop(_, _, _, _, _)
digi_regen_loop(c, st, from_chan, pp, to_chan) ==
    IF to_chan >= NumChans THEN st
    ELSE IF c.regen[from_chan][to_chan]
    THEN digi_regen_loop(c,
             [st EXCEPT !.heap = ax25_dup(st.heap, pp),
                        !.tq = tq_append(st.tq, to_chan, TQ_PRIO_1_LO, ax25_new(st.heap))],
             from_chan, pp, to_chan + 1)
    ELSE digi_regen_loop(c, st, from_chan, pp, to_chan + 1)

\* digi_regen (from_chan, pp)
digi_regen(c, st, from_chan, pp) == digi_regen_loop(c, st, from_chan, pp, 0)

\* "if (ax25_is_aprs(pp) && (...)) { digipeater (chan, pp); }"
rec_packet_digipeater(c, st, t, chan, pp, fec_type, retries) ==
    IF ax25_is_aprs(st.heap, pp) /\ crc_ok(fec_type, retries)
    THEN digipeater(c, st, t, chan, pp)
    ELSE st

\* from_ichannel for a dispatcher without the early return.
from_ichannel_never(c, chan) == FALSE

\* The frame stops at the fan-out: it came from the virtual IGate channel.
from_ichannel(c, chan) == chan = c.igate_vchannel

\* aprs_tt_branch for frames of the DTMF decoder only.
aprs_tt_branch_dtmf_only(c, info, subchan) == subchan = -1

\* The frame takes one of the two APRStt branches.
aprs_tt_branch(c, info, subchan) ==
    \/ subchan = -1
    \/ CharAt(info, 1) = "t" /\ Len(info) >= 2 /\ c.gateway_enabled

\* The four calls that hand the frame to the client applications.
ClientCalls ==
    <<"server_send_rec_packet", "kissnet_send_rec_packet",
      "kissserial_send_rec_packet", "kisspt_send_rec_packet">>

\* The calls of the last branch with the digipeater ahead of the IGate.
rec_packet_retransmit_calls_digi_first(c, h, chan, pp, fec_type, retries) ==
    (IF ax25_is_aprs(h, pp) /\ crc_ok(fec_type, retries)
     THEN <<"digipeater">> ELSE <<>>)
      \o <<"digi_regen">>
      \o (IF ax25_is_aprs(h, pp) /\ crc_ok(fec_type, retries)
          THEN <<"igate_send_rec_packet">> ELSE <<>>)
      \o (IF chan < MAX_RADIO_CHANS /\ crc_ok(fec_type, retries)
          THEN <<"cdigipeater">> ELSE <<>>)

\* The calls of the last branch, in order.
rec_packet_retransmit_calls(c, h, chan, pp, fec_type, retries) ==
    (IF ax25_is_aprs(h, pp) /\ crc_ok(fec_type, retries)
     THEN <<"igate_send_rec_packet">> ELSE <<>>)
      \o <<"digi_regen">>
      \o (IF ax25_is_aprs(h, pp) /\ crc_ok(fec_type, retries)
          THEN <<"digipeater">> ELSE <<>>)
      \o (IF chan < MAX_RADIO_CHANS /\ crc_ok(fec_type, retries)
          THEN <<"cdigipeater">> ELSE <<>>)

\* The calls app_process_rec_packet makes for the frame, in order.
rec_packet_calls(c, h, chan, subchan, pp, fec_type, retries) ==
    ClientCalls \o
      (IF from_ichannel(c, chan) THEN <<>>
       ELSE IF aprs_tt_branch(c, ax25_get_info(h, pp), subchan)
       THEN (IF c.gateway_enabled /\ Len(ax25_get_info(h, pp)) >= 2
             THEN <<"aprs_tt_sequence">> ELSE <<>>)
       ELSE rec_packet_retransmit_calls(c, h, chan, pp, fec_type, retries))

\* What app_process_rec_packet does to the packets, the queues, the dedupe
\* history and the counters.
app_process_rec_packet(c, st, t, chan, subchan, pp, fec_type, retries) ==
    IF from_ichannel(c, chan) \/ aprs_tt_branch(c, ax25_get_info(st.heap, pp), subchan)
    THEN st
    ELSE rec_packet_digipeater(c,
             digi_regen(c, st, chan, pp),
             t, chan, pp, fec_type, retries)

\* The digipeater configuration of a station that digipeats between all
\* channels, with the settings the dispatcher reads.
DispatchConfig(regen, igate_vchannel, gateway_enabled) ==
    Config(AllEnabled, PREEMPT_OFF, "", NO_FILTER)
      @@ [regen |-> [f \in Chans |-> [t \in Chans |-> regen]],
          igate_vchannel |-> igate_vchannel,
          gateway_enabled |-> gateway_enabled]

\* Regeneration off or on for every direction, no IGate channel or the last
\* channel, the APRStt gateway off or on.
DispatchConfigs ==
    {DispatchConfig(regen, ich, gw) :
        regen \in BOOLEAN, ich \in {-1, NumChans - 1}, gw \in BOOLEAN}

\* An APRS packet, a touch tone sequence, a lone t, and an I frame of a
\* connected mode session.
DispatchInputs ==
    {Packet(SourceA, <<Addr("WIDE1", 1, 0)>>, "hi"),
     Packet(SourceA, <<Addr("WIDE1", 1, 0)>>, "t1"),
     Packet(SourceA, <<Addr("WIDE1", 1, 0)>>, "t"),
     [Packet(SourceA, <<Addr("WIDE1", 1, 0)>>, "hi") EXCEPT !.control = 0]}

\* recv_process takes a frame with its subchannel (-1 for the DTMF decoder),
\* FEC type and retry level from the receive queue.
Arrive(chan, subchan, pkt, fec_type, retries) ==
    /\ rx.pp = NULL
    /\ Cardinality(DOMAIN heap) < MaxCalls
    /\ rx' = [chan |-> chan, pp |-> ax25_new(heap), done |-> FALSE]
    /\ heap' = heap @@ (ax25_new(heap) :> pkt)
    /\ disp' = [subchan |-> subchan, fec_type |-> fec_type, retries |-> retries,
                calls |-> <<>>]
    /\ UNCHANGED <<cfg, now, tq, dedupe, digi_count, last, emitted>>

\* app_process_rec_packet (chan, subchan, slice, pp, alevel, fec_type,
\* retries, spectrum)
AppProcessRecPacket ==
    /\ rx.pp # NULL
    /\ ~rx.done
    /\ DigipeaterReturns(
          app_process_rec_packet(cfg,
              [heap |-> heap, dedupe |-> dedupe, tq |-> tq,
               digi_count |-> digi_count, evals |-> <<>>],
              now, rx.chan, disp.subchan, rx.pp, disp.fec_type, disp.retries))
    /\ disp' = [disp EXCEPT !.calls = rec_packet_calls(cfg, heap, rx.chan,
                                disp.subchan, rx.pp, disp.fec_type, disp.retries)]
    /\ rx' = [rx EXCEPT !.done = TRUE]
    /\ UNCHANGED <<cfg, now>>

InitDispatch ==
    /\ KissIdle
    /\ cfg \in DispatchConfigs
    /\ DigiIdle

NextDispatch ==
    \/ \E chan \in Chans, subchan \in {-1, 0}, pkt \in DispatchInputs,
          fec_type \in FecTypes, retries \in Retries :
            Arrive(chan, subchan, pkt, fec_type, retries) /\ UNCHANGED <<kiss_vars, hid, thread, tt>>
    \/ AppProcessRecPacket /\ UNCHANGED <<kiss_vars, hid, thread, tt>>
    \/ Release /\ disp' = NoDispatch /\ UNCHANGED <<kiss_vars, hid, thread, tt>>
    \/ Tick /\ UNCHANGED <<kiss_vars, disp, hid, thread, tt>>

SpecDispatch == InitDispatch /\ [][NextDispatch]_vars

(***************************************************************************)
(*   One frame, of every shape, through digi_regen and the digipeater      *)
(* The frame has arrived on channel 0 with a good CRC; regenerated copies  *)
(* go to the last channel only.                                            *)
(***************************************************************************)
RegenToLast == [f \in Chans |-> [t \in Chans |-> t = NumChans - 1]]

FrameConfigs ==
    {c @@ [regen |-> RegenToLast, igate_vchannel |-> -1, gateway_enabled |-> FALSE] :
        c \in MatchConfigs}

InitFrame ==
    /\ KissIdle
    /\ cfg \in FrameConfigs
    /\ now = 0
    /\ \E pkt \in MatchInputs : heap = (1 :> pkt)
    /\ rx = [chan |-> 0, pp |-> 1, done |-> FALSE]
    /\ tq = [c \in Chans |-> [p \in {TQ_PRIO_0_HI, TQ_PRIO_1_LO} |-> <<>>]]
    /\ dedupe = {}
    /\ digi_count = [f \in Chans |-> [t \in Chans |-> 0]]
    /\ last = NoCall
    /\ emitted = {}
    /\ disp = NoDispatch
    /\ hid = NoGpio
    /\ thread = NoThreads
    /\ tt = NoTouchTone

NextFrame ==
    \/ AppProcessRecPacket /\ UNCHANGED <<kiss_vars, hid, thread, tt>>
    \/ Release /\ disp' = NoDispatch /\ UNCHANGED <<kiss_vars, hid, thread, tt>>

SpecFrame == InitFrame /\ [][NextFrame]_vars

(***************************************************************************)
(*      The running digipeater with a channel that is not a radio          *)
(* Channel 0 is a radio channel; the last channel is a radio channel, a    *)
(* network TNC, the virtual IGate channel, or no channel at all.           *)
(***************************************************************************)
\* "from_chan < 0 || from_chan >= MAX_TOTAL_CHANS ||
\*  (chan_medium[from_chan] != MEDIUM_RADIO &&
\*   chan_medium[from_chan] != MEDIUM_NETTNC)": the test in front of
\* "Did not expect to receive on invalid channel".  The statement under it
\* prints and nothing else; the two loops of digipeater() come after it
\* whatever the test gave.
digipeater_invalid_channel(c, from_chan) ==
    \/ from_chan < 0
    \/ from_chan >= NumChans
    \/ (c.chan_medium[from_chan] # "MEDIUM_RADIO" /\ c.chan_medium[from_chan] # "MEDIUM_NETTNC")

Mediums == {"MEDIUM_NONE", "MEDIUM_RADIO", "MEDIUM_IGATE", "MEDIUM_NETTNC"}

MediumConfigs ==
    {Config(en, PREEMPT_OFF, "", NO_FILTER)
        @@ [chan_medium |-> [c \in Chans |-> IF c = NumChans - 1 THEN m ELSE "MEDIUM_RADIO"]] :
        en \in {AllEnabled, ToFirstEnabled}, m \in Mediums}

InitMedium ==
    /\ KissIdle
    /\ cfg \in MediumConfigs
    /\ DigiIdle

NextMedium ==
    \/ \E chan \in Chans, pkt \in DigiInputs : Receive(chan, pkt) /\ UNCHANGED <<kiss_vars, disp, hid, thread, tt>>
    \/ Digipeater /\ UNCHANGED <<kiss_vars, disp, hid, thread, tt>>
    \/ Release /\ UNCHANGED <<kiss_vars, disp, hid, thread, tt>>
    \/ \E chan \in Chans : Transmit(chan) /\ UNCHANGED <<kiss_vars, disp, hid, thread, tt>>

SpecMedium == InitMedium /\ [][NextMedium]_vars

(***************************************************************************)
(*                      The GPIO pins of a CM108, cm108.c                  *)
(* The device takes HID reports of five bytes.  Whether open() and write() *)
(* succeed is up to the system, so both are inputs.                        *)
(***************************************************************************)
RECURSIVE Pow2(_)
Pow2(n) == IF n <= 0 THEN 1 ELSE 2 * Pow2(n - 1)

\* x << n, for the shifts of cm108_set_gpio_pin: n is 0..7 there.
ShiftLeft(x, n) == x * Pow2(n)

\* A value stored in a char of the io buffer, as the byte that is written.
Byte(x) == x % 256

\* cm108_write with io[2] and io[3] the other way round.
cm108_write_reversed(name, iomask, iodata, open_ok, write_ok) ==
    IF ~open_ok THEN [opened |-> FALSE, io |-> <<>>, ret |-> -1]
    ELSE [opened |-> TRUE,
          io |-> <<0, 0, Byte(iomask), Byte(iodata), 0>>,
          ret |-> IF write_ok THEN 0 ELSE -1]

\* cm108_write (name, iomask, iodata), the branch for Linux: open, write of
\* the five bytes of io, close.  io is what write() was given.
cm108_write(name, iomask, iodata, open_ok, write_ok) ==
    IF ~open_ok THEN [opened |-> FALSE, io |-> <<>>, ret |-> -1]
    ELSE [opened |-> TRUE,
          io |-> <<0, 0, Byte(iodata), Byte(iomask), 0>>,
          ret |-> IF write_ok THEN 0 ELSE -1]

\* cm108_set_gpio_pin (name, num, state)
cm108_set_gpio_pin(name, num, state, open_ok, write_ok) ==
    IF num < 1 \/ num > 8 THEN [opened |-> FALSE, io |-> <<>>, ret |-> -1]
    ELSE IF state # 0 /\ state # 1 THEN [opened |-> FALSE, io |-> <<>>, ret |-> -1]
    ELSE cm108_write(name, ShiftLeft(1, num - 1), ShiftLeft(state, num - 1), open_ok, write_ok)

\* The HID devices of the configuration, and the pin numbers and states a
\* caller may come with, good and bad.
GpioNames == {"/dev/hidraw0", "/dev/hidraw1"}
GpioNums == -2..11
GpioStates == -1..2

\* ptt_set, or whoever it is, calls cm108_set_gpio_pin.
Cm108SetGpioPin(name, num, state, open_ok, write_ok) ==
    /\ hid' = [name |-> name, num |-> num, state |-> state]
                @@ cm108_set_gpio_pin(name, num, state, open_ok, write_ok)
    /\ UNCHANGED <<kiss_vars, digi_vars, disp, thread, tt>>

InitGpio ==
    /\ KissIdle
    /\ cfg = Config(AllEnabled, PREEMPT_OFF, "", NO_FILTER)
    /\ DigiIdle

NextGpio ==
    \E name \in GpioNames, num \in GpioNums, state \in GpioStates, open_ok \in BOOLEAN, write_ok \in BOOLEAN :
        Cm108SetGpioPin(name, num, state, open_ok, write_ok)

SpecGpio == InitGpio /\ [][NextGpio]_vars

(***************************************************************************)
(*        Two dispatcher threads, one per receiving channel                *)
(* Each thread runs digipeater() for the frame of its own channel.         *)
(* digipeater.c takes no lock, so the threads interleave between the       *)
(* statements of digipeater(): the call of digipeat_match, which holds     *)
(* dedupe_check, is one step, and the statements after it                  *)
(* (dedupe_remember, tq_append, the count) are the next.  The clock        *)
(* stands still, so that every entry of the history is young.              *)
(***************************************************************************)
\* The two loops of digipeater() as one walk: step k < NumChans is the
\* first pass at to_chan = k, step k >= NumChans the second pass at
\* to_chan = k - NumChans.  next_try is the first step from k on whose
\* to_chan is evaluated, 2 * NumChans when the loops are over.
RECURSIVE next_try(_, _, _)
next_try(c, from_chan, k) ==
    IF k >= 2 * NumChans THEN k
    ELSE IF c.enabled[from_chan][k % NumChans]
            /\ ((k < NumChans) <=> (k % NumChans = from_chan))
    THEN k
    ELSE next_try(c, from_chan, k + 1)

try_prio(k) == IF k < NumChans THEN TQ_PRIO_0_HI ELSE TQ_PRIO_1_LO

\* The dispatcher of channel chan takes a frame and enters digipeater().
ThreadReceive(chan, pkt) ==
    /\ thread[chan].pc = "idle"
    /\ TotalCount(digi_count) < MaxCalls
    /\ heap' = heap @@ (ax25_new(heap) :> pkt)
    /\ thread' = [thread EXCEPT ![chan] = [pc |-> "match", pp |-> ax25_new(heap),
                                           k |-> next_try(cfg, chan, 0), m |-> NULL]]
    /\ UNCHANGED <<cfg, now, rx, tq, dedupe, digi_count, last, emitted>>

\* "result = digipeat_match (from_chan, pp, ..., to_chan, ...)"
ThreadMatch(chan, to_chan, m) ==
    /\ heap' = m.h
    /\ thread' = [thread EXCEPT ![chan].pc = "result", ![chan].m = m.result]
    /\ UNCHANGED <<cfg, now, rx, tq, dedupe, digi_count, last, emitted>>

ThreadDigipeatMatch(chan) ==
    /\ thread[chan].pc = "match"
    /\ thread[chan].k < 2 * NumChans
    /\ ThreadMatch(chan, thread[chan].k % NumChans,
          digipeat_match(heap, dedupe, cfg.dedupe_time, now, chan, thread[chan].pp,
                         cfg.mycall[chan], cfg.mycall[thread[chan].k % NumChans],
                         cfg.alias[chan][thread[chan].k % NumChans],
                         cfg.wide[chan][thread[chan].k % NumChans],
                         thread[chan].k % NumChans,
                         cfg.preempt[chan][thread[chan].k % NumChans],
                         cfg.atgp[chan][thread[chan].k % NumChans],
                         cfg.filter_str[chan][thread[chan].k % NumChans]))

\* "if (result != NULL) { dedupe_remember (pp, to_chan); tq_append (...);
\*  digi_count[from_chan][to_chan]++; }" and on to the next to_chan.
ThreadResult(chan, st) ==
    /\ heap' = st.heap
    /\ dedupe' = st.dedupe
    /\ tq' = st.tq
    /\ digi_count' = st.digi_count
    /\ emitted' = Emitted(emitted, chan, heap[thread[chan].pp], now, st.evals)
    /\ thread' = [thread EXCEPT ![chan].pc = "match", ![chan].m = NULL,
                                ![chan].k = next_try(cfg, chan, thread[chan].k + 1)]
    /\ UNCHANGED <<cfg, now, rx, last>>

ThreadDigipeaterResult(chan) ==
    /\ thread[chan].pc = "result"
    /\ ThreadResult(chan,
          digipeater_result(cfg,
              [heap |-> heap, dedupe |-> dedupe, tq |-> tq,
               digi_count |-> digi_count, evals |-> <<>>],
              now, chan, thread[chan].pp, thread[chan].k % NumChans,
              try_prio(thread[chan].k),
              [h |-> heap, result |-> thread[chan].m]))

\* digipeater() returns and the dispatcher frees the frame.
ThreadReturn(chan) ==
    /\ thread[chan].pc = "match"
    /\ thread[chan].k >= 2 * NumChans
    /\ heap' = ax25_delete(heap, thread[chan].pp)
    /\ thread' = [thread EXCEPT ![chan] = [pc |-> "idle", pp |-> NULL, k |-> 0, m |-> NULL]]
    /\ UNCHANGED <<cfg, now, rx, tq, dedupe, digi_count, last, emitted>>

\* A WIDE1-1 packet, a packet with another information part, and one that
\* no rule applies to.
ThreadInputs ==
    {Packet(SourceA, <<Addr("WIDE1", 1, 0)>>, "hi"),
     Packet(SourceA, <<Addr("WIDE1", 1, 0)>>, "yo"),
     Packet(SourceA, <<Addr("FOO", 0, 0)>>, "hi")}

ThreadConfigs ==
    {Config(en, PREEMPT_OFF, "", NO_FILTER) : en \in {AllEnabled, ToFirstEnabled}}

InitThreads ==
    /\ KissIdle
    /\ cfg \in ThreadConfigs
    /\ DigiIdle

NextThreads ==
    \/ \E chan \in Chans, pkt \in ThreadInputs :
            ThreadReceive(chan, pkt) /\ UNCHANGED <<kiss_vars, disp, hid, tt>>
    \/ \E chan \in Chans : ThreadDigipeatMatch(chan) /\ UNCHANGED <<kiss_vars, disp, hid, tt>>
    \/ \E chan \in Chans : ThreadDigipeaterResult(chan) /\ UNCHANGED <<kiss_vars, disp, hid, tt>>
    \/ \E chan \in Chans : ThreadReturn(chan) /\ UNCHANGED <<kiss_vars, disp, hid, tt>>
    \/ \E chan \in Chans : Transmit(chan) /\ UNCHANGED <<kiss_vars, disp, hid, thread, tt>>

SpecThreads == InitThreads /\ [][NextThreads]_vars

(***************************************************************************)
(*                 Touch tone text, multi-press, tt_text.c                 *)
(* A text and a button string are sequences of characters, a character is  *)
(* a string of length 1, and NUL is the 0 of the C table.                  *)
(***************************************************************************)
MaxText == 3

NUL == ""

translate ==
    << <<" ", NUL, NUL, NUL>>,
       <<NUL, NUL, NUL, NUL>>,
       <<"A", "B", "C", NUL>>,
       <<"D", "E", "F", NUL>>,
       <<"G", "H", "I", NUL>>,
       <<"J", "K", "L", NUL>>,
       <<"M", "N", "O", NUL>>,
       <<"P", "Q", "R", "S">>,
       <<"T", "U", "V", NUL>>,
       <<"W", "X", "Y", "Z">> >>

DigitChars == <<"0", "1", "2", "3", "4", "5", "6", "7", "8", "9">>

UpperChars ==
    <<"A", "B", "C", "D", "E", "F", "G", "H", "I", "J", "K", "L", "M",
      "N", "O", "P", "Q", "R", "S", "T", "U", "V", "W", "X", "Y", "Z">>

LowerChars ==
    <<"a", "b", "c", "d", "e", "f", "g", "h", "i", "j", "k", "l", "m",
      "n", "o", "p", "q", "r", "s", "t", "u", "v", "w", "x", "y", "z">>

IndexIn(c, chars) == CHOOSE i \in 1..Len(chars) : chars[i] = c

isdigit(c) == \E i \in 1..Len(DigitChars) : DigitChars[i] = c
isupper(c) == \E i \in 1..Len(UpperChars) : UpperChars[i] = c
islower(c) == \E i \in 1..Len(LowerChars) : LowerChars[i] = c

\* "row = c - '0'" and "row + '0'"
digit_row(c) == IndexIn(c, DigitChars) - 1
row_digit(row) == DigitChars[row + 1]

\* translate[row][col] with row and col counted from 0 as in C.
translate_at(row, col) == translate[row + 1][col + 1]

RECURSIVE Repeat(_, _)
Repeat(c, n) == IF n <= 0 THEN <<>> ELSE <<c>> \o Repeat(c, n - 1)

\* "n = 1; for (col...) if (translate[row][col] != 0) n++;" of
\* tt_text_to_multipress: the presses that stand for the digit itself.
multipress_digit_presses(row) ==
    1 + Cardinality({col \in 0..3 : translate_at(row, col) # NUL})

\* The separator test with the answer always no.
multipress_same_button_never(buttons, row) == FALSE

\* "buttons[0] != '\0' && *(b-1) == row + '0'"
multipress_same_button(buttons, row) ==
    buttons # <<>> /\ buttons[Len(buttons)] = row_digit(row)

\* "if (...) *b++ = 'A'; while (n--) *b++ = row + '0';"
multipress_press(buttons, row, n) ==
    (IF multipress_same_button(buttons, row) THEN Append(buttons, "A") ELSE buttons)
        \o Repeat(row_digit(row), n)

\* What the else branch makes of a character that is no digit: a letter in
\* upper case, or a space for what is neither letter nor space.
multipress_fold(c) ==
    IF isupper(c) THEN c ELSE IF islower(c) THEN toupper(c) ELSE " "

multipress_fold_errors(c) ==
    IF ~isupper(c) /\ ~islower(c) /\ c # " " THEN 1 ELSE 0

\* The places of c in the table, <<row, col>>.
translate_find(c) ==
    {rc \in (0..9) \X (0..3) : translate_at(rc[1], rc[2]) = c}

\* The first place in the order of the two loops, rows outside.
translate_first(found) ==
    CHOOSE rc \in found :
        \A o \in found : rc[1] < o[1] \/ (rc[1] = o[1] /\ rc[2] <= o[2])

\* The search of the table for a character that is no digit: c is the
\* character after folding, errors the count so far, found its places.
multipress_letter(st, errors, found) ==
    IF found = {}
    THEN [st EXCEPT !.errors = errors + 1]
    ELSE [buttons |-> multipress_press(st.buttons, translate_first(found)[1],
                                       translate_first(found)[2] + 1),
          errors |-> errors]

\* One turn of the loop of tt_text_to_multipress for character c;
\* st = [buttons, errors].
multipress_char(c, st) ==
    IF isdigit(c)
    THEN [st EXCEPT !.buttons = multipress_press(st.buttons, digit_row(c),
                                    multipress_digit_presses(digit_row(c)))]
    ELSE multipress_letter(st, st.errors + multipress_fold_errors(c),
                           translate_find(multipress_fold(c)))

RECURSIVE multipress_loop(_, _, _)
multipress_loop(text, t, st) ==
    IF t > Len(text) THEN st
    ELSE multipress_loop(text, t + 1, multipress_char(text[t], st))

\* tt_text_to_multipress (text, quiet, buttons): the buttons and the number
\* of errors.
tt_text_to_multipress(text) ==
    multipress_loop(text, 1, [buttons |-> <<>>, errors |-> 0])

\* "maxspan = 1; for (col...) if (translate[row][col] != 0) maxspan++;" of
\* tt_multipress_to_text.
multipress_maxspan(row) ==
    1 + Cardinality({col \in 0..3 : translate_at(row, col) # NUL})

\* "n = 1; while (c == *b) { b++; n++; }": the length of the run of c that
\* begins at position b of buttons.
RECURSIVE multipress_run(_, _, _)
multipress_run(buttons, b, c) ==
    IF b + 1 <= Len(buttons) /\ buttons[b + 1] = c
    THEN 1 + multipress_run(buttons, b + 1, c)
    ELSE 1

\* The character a run of n presses of the digit c stands for.
multipress_run_char(c, n) ==
    IF n < multipress_maxspan(digit_row(c)) THEN translate_at(digit_row(c), n - 1) ELSE c

\* "b == buttons + 1 || *b == '\0' || *(b-2) != *b", the separator being at
\* position b of buttons.
multipress_bad_separator(buttons, b) ==
    b = 1 \/ b = Len(buttons) \/ buttons[b - 1] # buttons[b + 1]

\* The loop of tt_multipress_to_text from position b on; st = [text, errors].
RECURSIVE multipress_text_loop(_, _, _)
multipress_text_loop(buttons, b, st) ==
    IF b > Len(buttons) THEN st
    ELSE IF isdigit(buttons[b])
    THEN multipress_text_loop(buttons, b + multipress_run(buttons, b, buttons[b]),
             [text |-> Append(st.text,
                          multipress_run_char(buttons[b], multipress_run(buttons, b, buttons[b]))),
              errors |-> st.errors +
                  (IF multipress_run(buttons, b, buttons[b]) > multipress_maxspan(digit_row(buttons[b]))
                   THEN 1 ELSE 0)])
    ELSE IF buttons[b] = "A" \/ buttons[b] = "a"
    THEN multipress_text_loop(buttons, b + 1,
             [st EXCEPT !.errors = @ + (IF multipress_bad_separator(buttons, b) THEN 1 ELSE 0)])
    ELSE multipress_text_loop(buttons, b + 1, [st EXCEPT !.errors = @ + 1])

\* tt_multipress_to_text (buttons, quiet, text): the text and the number of
\* errors.
tt_multipress_to_text(buttons) ==
    multipress_text_loop(buttons, 1, [text |-> <<>>, errors |-> 0])

\* Every letter, digit and the space, a lower case letter and a character
\* that has no button.
TextChars ==
    {UpperChars[i] : i \in 1..Len(UpperChars)}
        \cup {DigitChars[i] : i \in 1..Len(DigitChars)}
        \cup {" ", "b", "-"}

\* Characters of one button, of the buttons without letters and with four,
\* and the ones that are folded.
CoreChars == {"A", "C", "P", "S", "0", "1", "2", "7", " ", "b", "-"}

\* Every text shorter than MaxText, and the texts of MaxText core characters.
TextInputs == SeqsUpTo(TextChars, MaxText - 1) \cup SeqsUpTo(CoreChars, MaxText)

\* The user of the touch tone tools types a text.
TtTextToMultipress ==
    /\ tt.pc = "idle"
    /\ tt' = [tt EXCEPT !.pc = "encoded",
                        !.buttons = tt_text_to_multipress(tt.text).buttons,
                        !.errors = tt_text_to_multipress(tt.text).errors]
    /\ UNCHANGED <<kiss_vars, digi_vars, disp, hid, thread>>

\* The buttons are turned back into text.
TtMultipressToText ==
    /\ tt.pc = "encoded"
    /\ tt' = [tt EXCEPT !.pc = "decoded",
                        !.out = tt_multipress_to_text(tt.buttons).text,
                        !.errors = tt_multipress_to_text(tt.buttons).errors]
    /\ UNCHANGED <<kiss_vars, digi_vars, disp, hid, thread>>

InitText ==
    /\ KissIdle
    /\ cfg = Config(AllEnabled, PREEMPT_OFF, "", NO_FILTER)
    /\ now = 0
    /\ heap = <<>>
    /\ rx = [chan |-> 0, pp |-> NULL, done |-> FALSE]
    /\ tq = [c \in Chans |-> [p \in {TQ_PRIO_0_HI, TQ_PRIO_1_LO} |-> <<>>]]
    /\ dedupe = {}
    /\ digi_count = [f \in Chans |-> [t \in Chans |-> 0]]
    /\ last = NoCall
    /\ emitted = {}
    /\ disp = NoDispatch
    /\ hid = NoGpio
    /\ thread = NoThreads
    /\ \E text \in TextInputs : tt = [NoTouchTone EXCEPT !.text = text]

NextText ==
    \/ TtTextToMultipress
    \/ TtMultipressToText

SpecText == InitText /\ [][NextText]_vars

(***************************************************************************)
(*                               Properties                                *)
(***************************************************************************)
\* digipeater() has returned and the frame has not been freed yet: last
\* tells what the call was given and did.
Called == last.pp # NULL

\* One record for each call of digipeat_match the last digipeater() made.
Evals == {last.evals[i] : i \in 1..Len(last.evals)}

\* An address as text, "CALL" or "CALL-SSID".
AddrText(a) == IF a.ssid = 0 THEN a.call ELSE a.call \o "-" \o ToString(a.ssid)

\* The position (destination 0, source 1, repeaters from 2) of the first
\* repeater of pkt that has H = 0; -1 when there is none.
FirstUnused(pkt) ==
    LET u == {n \in 2..(Len(pkt.addrs) - 1) :
                 /\ pkt.addrs[n + 1].h = 0
                 /\ \A m \in 2..(n - 1) : pkt.addrs[m + 1].h = 1}
    IN  IF u = {} THEN -1 ELSE CHOOSE n \in u : TRUE

\* What the duplicate check goes by.
DedupeKey(pkt) == <<AddrText(pkt.addrs[2]), AddrText(pkt.addrs[1]), pkt.info>>

SourceIsMe(pkt, from_chan) == AddrText(pkt.addrs[2]) = MyCall(from_chan)

\* The first unused repeater of pkt is the call of the receiving channel.
ExplicitMe(pkt, from_chan) ==
    /\ FirstUnused(pkt) >= 2
    /\ AddrText(pkt.addrs[FirstUnused(pkt) + 1]) = MyCall(from_chan)

\* No filter is configured for the direction, or the filter passes pkt.
FilterPasses(pkt, from_chan, to_chan) ==
    \/ cfg.filter_str[from_chan][to_chan] = NO_FILTER
    \/ cfg.filter_str[from_chan][to_chan] = "b/" \o AddrText(pkt.addrs[2])

\* A copy with the (source, destination, info) of pkt was queued for to_chan
\* less than the dedupe time before t.
QueuedWithin(em, pkt, to_chan, t) ==
    \E x \in em : /\ x.to_chan = to_chan
                  /\ DedupeKey(x.pkt) = DedupeKey(pkt)
                  /\ t - x.time < cfg.dedupe_time

\* Every such copy was queued more than the dedupe time before t.
QueuedLongAgo(em, pkt, to_chan, t) ==
    \A x \in em : (x.to_chan = to_chan /\ DedupeKey(x.pkt) = DedupeKey(pkt))
                      => t - x.time > cfg.dedupe_time

\* The position of the pre-empt hit: the first repeater after r that is the
\* call of the receiving channel or matches the alias pattern; -1 when
\* pre-empting is off or nothing matches.
PreemptHit(pkt, from_chan, to_chan, r) ==
    LET hits == {n \in (r + 1)..(Len(pkt.addrs) - 1) :
                    \/ AddrText(pkt.addrs[n + 1]) = MyCall(from_chan)
                    \/ regexec(cfg.alias[from_chan][to_chan], AddrText(pkt.addrs[n + 1])) = 0}
    IN  IF cfg.preempt[from_chan][to_chan] = PREEMPT_OFF \/ hits = {} THEN -1
        ELSE CHOOSE n \in hits : \A m \in hits : n <= m

\* pkt gets as far as the alias test for to_chan: it has an unused repeater
\* and is stopped by none of filter, explicit-me, source guard and dedupe.
ReachesRules(pkt, from_chan, to_chan) ==
    /\ FilterPasses(pkt, from_chan, to_chan)
    /\ FirstUnused(pkt) >= 2
    /\ ~ExplicitMe(pkt, from_chan)
    /\ ~SourceIsMe(pkt, from_chan)
    /\ ~QueuedWithin(last.emitted, pkt, to_chan, last.now)

\* pkt gets as far as the WIDEn-N rule for to_chan, and the rule applies to
\* its first unused repeater: no earlier rule has taken the packet.
ReachesWide(pkt, from_chan, to_chan) ==
    /\ ReachesRules(pkt, from_chan, to_chan)
    /\ regexec(cfg.alias[from_chan][to_chan], AddrText(pkt.addrs[FirstUnused(pkt) + 1])) # 0
    /\ PreemptHit(pkt, from_chan, to_chan, FirstUnused(pkt)) = -1
    /\ regexec(cfg.wide[from_chan][to_chan], AddrText(pkt.addrs[FirstUnused(pkt) + 1])) = 0
    /\ ~(/\ Len(cfg.atgp[from_chan][to_chan]) > 0
          /\ strncasecmp0(AddrText(pkt.addrs[FirstUnused(pkt) + 1]),
                          cfg.atgp[from_chan][to_chan], Len(cfg.atgp[from_chan][to_chan])))

IsUsed(a) == a.h = 1

NoQueue == [c \in Chans |-> [p \in {TQ_PRIO_0_HI, TQ_PRIO_1_LO} |-> <<>>]]

\* The KISS encoding of one byte.
KissEscaped(b) ==
    IF b = FEND THEN <<FESC, TFEND>> ELSE IF b = FESC THEN <<FESC, TFESC>> ELSE <<b>>

\* The encodings of the bytes of A, one after the other.
RECURSIVE KissPayload(_)
KissPayload(A) == IF A = <<>> THEN <<>> ELSE KissEscaped(Head(A)) \o KissPayload(Tail(A))

\* C1: KISS round trip.  For every byte sequence A, the empty one and those
\* with FEND or FESC at any position included, kiss_unwrap of what
\* kiss_encapsulate made of A gives back exactly A.
C1_KissRoundTrip ==
    kiss_pc = "decoded" => /\ kiss_wire = kiss_encapsulate(kiss_in)
                           /\ Len(kiss_out) = Len(kiss_in)
                           /\ kiss_out = kiss_in

\* A block with FEND in the type byte and at the end and FESC inside has
\* made the round trip.
C1_Witness ==
    /\ kiss_pc = "decoded"
    /\ kiss_in = <<FEND, FESC, 1, FEND>>
    /\ kiss_out = <<FEND, FESC, 1, FEND>>

\* C7: KISS encoding format.  The output of kiss_encapsulate is FEND, the
\* bytes of A in order with FEND replaced by FESC TFEND, FESC by FESC TFESC
\* and every other byte copied, the type byte like any other, then FEND; so
\* FEND occurs in the output only as its first and its last byte.  C0 DB 01
\* C0 encodes to C0 DB DC DB DD 01 DB DC C0.
C7_KissFormat ==
    kiss_pc # "idle" =>
        /\ kiss_wire = <<FEND>> \o KissPayload(kiss_in) \o <<FEND>>
        /\ \A i \in 1..Len(kiss_wire) : kiss_wire[i] = FEND <=> i \in {1, Len(kiss_wire)}
        /\ kiss_in = <<192, 219, 1, 192>> =>
               kiss_wire = <<192, 219, 220, 219, 221, 1, 219, 220, 192>>

\* The example block has been encoded.
C7_Witness ==
    /\ kiss_pc = "encoded"
    /\ kiss_in = <<192, 219, 1, 192>>
    /\ kiss_wire = <<192, 219, 220, 219, 221, 1, 219, 220, 192>>

\* C2, as claimed: after a packet with a given (source, destination, info)
\* has been queued for to_chan, a second digipeater() call with the same
\* (source, destination, info) for the same to_chan within the dedupe time
\* queues nothing, regardless of the repeater path of either packet; once
\* the time has elapsed the same packet is queued again.
C2_Original ==
    Called =>
        \A e \in Evals :
            /\ QueuedWithin(last.emitted, last.before, e.to_chan, last.now)
                  => e.result = NULL
            /\ (/\ \E x \in last.emitted : /\ x.pkt = last.before
                                           /\ x.from_chan = last.from_chan
                                           /\ x.to_chan = e.to_chan
                /\ QueuedLongAgo(last.emitted, last.before, e.to_chan, last.now))
                  => e.result # NULL

\* C2, amended: the same, unless the first unused repeater of the second
\* packet is mycall_rec of the receiving channel: such a packet is queued
\* again within the dedupe time.
C2_DedupeWindow ==
    Called =>
        \A e \in Evals :
            /\ (/\ QueuedWithin(last.emitted, last.before, e.to_chan, last.now)
                /\ ~ExplicitMe(last.before, last.from_chan))
                  => e.result = NULL
            /\ (/\ \E x \in last.emitted : /\ x.pkt = last.before
                                           /\ x.from_chan = last.from_chan
                                           /\ x.to_chan = e.to_chan
                /\ QueuedLongAgo(last.emitted, last.before, e.to_chan, last.now))
                  => e.result # NULL

\* A packet is refused for a channel that a copy with another path was
\* queued for less than the dedupe time ago.
C2_Witness ==
    /\ Called
    /\ \E e \in Evals :
          /\ e.result = NULL
          /\ ~ExplicitMe(last.before, last.from_chan)
          /\ \E x \in last.emitted : /\ x.to_chan = e.to_chan
                                     /\ DedupeKey(x.pkt) = DedupeKey(last.before)
                                     /\ x.pkt.addrs # last.before.addrs
                                     /\ last.now - x.time < cfg.dedupe_time

\* C3, as claimed: if the source address of P equals mycall_rec of the
\* receiving channel, digipeat_match returns no packet and digipeater()
\* queues nothing for P, whatever the repeater path of P contains.
C3_Original ==
    (Called /\ SourceIsMe(last.before, last.from_chan)) =>
        /\ \A e \in Evals : e.result = NULL
        /\ tq = NoQueue
        /\ emitted = last.emitted

\* C3, amended: the same, provided the first unused repeater of P is not
\* mycall_rec of the receiving channel.
C3_SourceGuard ==
    (/\ Called
     /\ SourceIsMe(last.before, last.from_chan)
     /\ ~ExplicitMe(last.before, last.from_chan)) =>
        /\ \A e \in Evals : e.result = NULL
        /\ tq = NoQueue
        /\ emitted = last.emitted

\* A packet of our own with WIDE1-1 as its first unused repeater has been
\* through digipeater() with no filter set, and nothing was queued.
C3_Witness ==
    /\ Called
    /\ SourceIsMe(last.before, last.from_chan)
    /\ Len(last.before.addrs) >= 3
    /\ last.before.addrs[3] = Addr("WIDE1", 1, 0)
    /\ \A c \in Chans : cfg.filter_str[last.from_chan][c] = NO_FILTER
    /\ Len(last.evals) = NumChans
    /\ \A e \in Evals : e.result = NULL
    /\ tq = NoQueue

\* C4: WIDEn-N trace.  When the first unused repeater r of P matches the wide
\* pattern with SSID n in 2..7, P has fewer than 8 repeaters and no earlier
\* rule applies, the packet queued has mycall_xmit with H = 1 at position r
\* and the original address with SSID n - 1 and H = 0 at position r + 1, and
\* everything else as in P.
C4_WideTrace ==
    Called =>
        \A e \in Evals :
            LET P == last.before
                r == FirstUnused(P)
            IN  (/\ ReachesWide(P, last.from_chan, e.to_chan)
                 /\ P.addrs[r + 1].ssid \in 2..7
                 /\ Len(P.addrs) - 2 < 8) =>
                    /\ e.result # NULL
                    /\ e.out = [P EXCEPT !.addrs =
                                  SubSeq(P.addrs, 1, r)
                                  \o <<MyCallAddr(e.to_chan, 1),
                                       [call |-> P.addrs[r + 1].call,
                                        ssid |-> P.addrs[r + 1].ssid - 1,
                                        h |-> 0]>>
                                  \o SubSeq(P.addrs, r + 2, Len(P.addrs))]

\* A>B,WIDE2-2 has become A>B,N0CALL-1*,WIDE2-1.
C4_Witness ==
    /\ Called
    /\ last.before = Packet(SourceA, <<Addr("WIDE2", 2, 0)>>, "hi")
    /\ \E e \in Evals :
          /\ e.to_chan = 0
          /\ e.result # NULL
          /\ e.out = Packet(SourceA, <<Addr("N0CALL", 1, 1), Addr("WIDE2", 1, 0)>>, "hi")

\* The handles of the packets the call queued for channel c, in order.
RECURSIVE QueuedFor(_, _)
QueuedFor(evals, c) ==
    IF evals = <<>> THEN <<>>
    ELSE IF Head(evals).to_chan = c /\ Head(evals).result # NULL
    THEN <<Head(evals).result>> \o QueuedFor(Tail(evals), c)
    ELSE QueuedFor(Tail(evals), c)

\* C5: queue selection.  Every packet digipeater() appends for
\* to_chan = from_chan goes to the high priority queue and every packet it
\* appends for to_chan # from_chan goes to the low priority queue; nothing is
\* appended to the other class.
C5_QueueSelection ==
    [][(last.pp = NULL /\ last'.pp # NULL) =>
         \A c \in Chans :
            /\ tq'[c][TQ_PRIO_0_HI] =
                  tq[c][TQ_PRIO_0_HI]
                    \o (IF c = last'.from_chan THEN QueuedFor(last'.evals, c) ELSE <<>>)
            /\ tq'[c][TQ_PRIO_1_LO] =
                  tq[c][TQ_PRIO_1_LO]
                    \o (IF c # last'.from_chan THEN QueuedFor(last'.evals, c) ELSE <<>>)]_vars

\* A frame received on channel 1 has been queued for channel 1 at high
\* priority and for channel 0 at low priority.
C5_Witness ==
    /\ Called
    /\ last.from_chan = 1
    /\ \E e1, e2 \in Evals :
          /\ e1.to_chan = 1 /\ e1.result # NULL
          /\ tq[1][TQ_PRIO_0_HI] = <<e1.result>> /\ tq[1][TQ_PRIO_1_LO] = <<>>
          /\ e2.to_chan = 0 /\ e2.result # NULL
          /\ tq[0][TQ_PRIO_1_LO] = <<e2.result>> /\ tq[0][TQ_PRIO_0_HI] = <<>>

C8_WideReplace ==
    Called =>
        \A e \in Evals :
            LET P == last.before
                r == FirstUnused(P)
            IN  (/\ ReachesWide(P, last.from_chan, e.to_chan)
                 /\ P.addrs[r + 1].ssid = 1) =>
                    /\ e.result # NULL
                    /\ Len(e.out.addrs) = Len(P.addrs)
                    /\ e.out = [P EXCEPT !.addrs[r + 1] = MyCallAddr(e.to_chan, 1)]

\* A>B,WIDE1-1 has become A>B,N0CALL-1*.
C8_Witness ==
    /\ Called
    /\ last.before = Packet(SourceA, <<Addr("WIDE1", 1, 0)>>, "hi")
    /\ \E e \in Evals :
          /\ e.to_chan = 0
          /\ e.result # NULL
          /\ e.out = Packet(SourceA, <<Addr("N0CALL", 1, 1)>>, "hi")

\* C9: pre-empt TRACE.  With preempt = TRACE and a pre-empt hit at position
\* r2 after the first unused repeater, for every input path the packet queued
\* has every repeater before r2 that had H = 0 removed and every one that had
\* H = 1 kept, then mycall_xmit with H = 1, then the addresses that followed
\* r2 unchanged.
C9_PreemptTrace ==
    Called =>
        \A e \in Evals :
            LET P  == last.before
                r  == FirstUnused(P)
                r2 == PreemptHit(P, last.from_chan, e.to_chan, r)
            IN  (/\ cfg.preempt[last.from_chan][e.to_chan] = PREEMPT_TRACE
                 /\ ReachesRules(P, last.from_chan, e.to_chan)
                 /\ regexec(cfg.alias[last.from_chan][e.to_chan], AddrText(P.addrs[r + 1])) # 0
                 /\ r2 # -1) =>
                    /\ e.result # NULL
                    /\ e.out = [P EXCEPT !.addrs =
                                  SubSeq(P.addrs, 1, 2)
                                  \o SelectSeq(SubSeq(P.addrs, 3, r2), IsUsed)
                                  \o <<MyCallAddr(e.to_chan, 1)>>
                                  \o SubSeq(P.addrs, r2 + 2, Len(P.addrs))]

\* C10, as claimed: if the first unused repeater of P equals mycall_rec of
\* the receiving channel, digipeat_match emits a copy with that address
\* replaced by mycall_xmit of to_chan and H = 1, also when a packet with the
\* same (source, destination, info) was queued for to_chan within the dedupe
\* time.
C10_Original ==
    Called =>
        \A e \in Evals :
            ExplicitMe(last.before, last.from_chan) =>
                /\ e.result # NULL
                /\ e.out = [last.before EXCEPT
                              !.addrs[FirstUnused(last.before) + 1] =
                                  MyCallAddr(e.to_chan, 1)]

\* C10, amended: the same, provided no filter is configured for the pair
\* (from_chan, to_chan) or the filter passes P.
C10_ExplicitMe ==
    Called =>
        \A e \in Evals :
            (/\ ExplicitMe(last.before, last.from_chan)
             /\ FilterPasses(last.before, last.from_chan, e.to_chan)) =>
                /\ e.result # NULL
                /\ e.out = [last.before EXCEPT
                              !.addrs[FirstUnused(last.before) + 1] =
                                  MyCallAddr(e.to_chan, 1)]

\* A packet sent via our call has been queued for a channel that a packet
\* with the same (source, destination, info) was queued for less than the
\* dedupe time before.
C10_Witness ==
    /\ Called
    /\ ExplicitMe(last.before, last.from_chan)
    /\ \E e \in Evals :
          /\ QueuedWithin(last.emitted, last.before, e.to_chan, last.now)
          /\ e.result # NULL
          /\ e.out.addrs[FirstUnused(last.before) + 1] = MyCallAddr(e.to_chan, 1)

\* The entry dedupe_remember makes for pkt on chan at time t.
DedupeEntry(pkt, chan, t) == [crc |-> DedupeKey(pkt), time |-> t, chan |-> chan]

\* The last digipeater() call queued a copy for channel c.
EmittedTo(c) == \E e \in Evals : e.to_chan = c /\ e.result # NULL

\* C11: dedupe entries track emissions.  After digipeater(from_chan, P), for
\* every channel c: if a digipeated copy of P was queued for c (by any rule,
\* explicit-me and WIDE1-1 included) the dedupe cache holds the (source,
\* destination, info) signature of P for c with the time of the call; if no
\* copy was queued for c (skipped or not evaluated) the call added no entry
\* for c to the cache.
C11_DedupeTracksEmissions ==
    Called =>
        \A c \in Chans :
            /\ EmittedTo(c) => DedupeEntry(last.before, c, last.now) \in dedupe
            /\ ~EmittedTo(c) =>
                   {e \in dedupe : e.chan = c} \subseteq {e \in last.dedupe : e.chan = c}

\* One call queued a copy for one channel, which made a new entry, and
\* gave nothing back for the other channel, which made none.
C11_Witness ==
    /\ Called
    /\ \E c, d \in Chans :
          /\ EmittedTo(c)
          /\ DedupeEntry(last.before, c, last.now) \in dedupe \ last.dedupe
          /\ \E e \in Evals : e.to_chan = d /\ e.result = NULL
          /\ DedupeEntry(last.before, d, last.now) \notin dedupe

\* C12: two-pass order.  Within one digipeater(from_chan, P) call the
\* evaluation for to_chan = from_chan, with its queue append, comes before
\* every evaluation for a to_chan other than from_chan, also when from_chan
\* is not the lowest channel number.
C12_TwoPassOrder ==
    Called =>
        \A i, j \in 1..Len(last.evals) :
            (/\ last.evals[i].to_chan = last.from_chan
             /\ last.evals[j].to_chan # last.from_chan) => i < j

\* A frame received on a channel that is not the lowest was queued for its
\* own channel first and for a lower channel after that.
C12_Witness ==
    /\ Called
    /\ Len(last.evals) >= 2
    /\ last.evals[1].to_chan = last.from_chan
    /\ last.evals[1].result # NULL
    /\ last.evals[2].to_chan < last.from_chan
    /\ last.evals[2].result # NULL

\* app_process_rec_packet has returned and the frame has not been freed yet.
Dispatched == rx.pp # NULL /\ rx.done

\* The calls app_process_rec_packet made for the frame.
Calls == {disp.calls[i] : i \in 1..Len(disp.calls)}

\* The frame came in with a good CRC: no bits were changed to make it fit,
\* or it was received with FX.25 or IL2P.
CrcValid == disp.retries = "RETRY_NONE" \/ disp.fec_type \in {"fec_type_fx25", "fec_type_il2p"}

\* C13: dispatch CRC gate.  app_process_rec_packet passes a frame to the
\* APRS digipeater, to the IGate and to the connected-mode digipeater only
\* if retries is RETRY_NONE or fec_type is fx25 or il2p; for a frame taken
\* with changed bits and no FEC none of the three is called, digipeat_match
\* is not evaluated and no digipeated copy is queued or counted.
C13_CrcGate ==
    Dispatched =>
        \/ CrcValid
        \/ /\ Calls \cap {"igate_send_rec_packet", "digipeater", "cdigipeater"} = {}
           /\ last.evals = <<>>
           /\ emitted = last.emitted

\* An APRS frame got through with changed bits and no FEC on a radio channel
\* and reached the last branch of the dispatcher, where it was not given to
\* the IGate or to a digipeater.
C13_Witness ==
    /\ Dispatched
    /\ ~CrcValid
    /\ rx.chan < MAX_RADIO_CHANS
    /\ ax25_is_aprs(heap, rx.pp)
    /\ "digi_regen" \in Calls
    /\ "digipeater" \notin Calls
    /\ "igate_send_rec_packet" \notin Calls
    /\ "cdigipeater" \notin Calls

\* The handles in the transmit queues q.
TqHandles(q) ==
    UNION {{q[c][p][i] : i \in 1..Len(q[c][p])} : c \in Chans, p \in {TQ_PRIO_0_HI, TQ_PRIO_1_LO}}

\* The packets a step put on the queues that are not results of digipeat_match:
\* the copies digi_regen made.
RegenCopies(q_old, q_new, evals) ==
    TqHandles(q_new) \ (TqHandles(q_old) \cup {evals[i].result : i \in 1..Len(evals)})

\* C14: digi_regen is gated on CRC validity.  app_process_rec_packet queues
\* a regenerated copy of a frame only if the frame came in with retries
\* RETRY_NONE or with fec_type fx25 or il2p.
C14_RegenGated ==
    [][(rx.pp # NULL /\ ~rx.done /\ rx'.done /\ RegenCopies(tq, tq', last'.evals) # {})
          => CrcValid]_vars

\* The part of a block that kiss_unwrap decodes: the block without a FEND at
\* its start and without a FEND at its end.
KissBody(w) ==
    SubSeq(w, IF w[1] = FEND THEN 2 ELSE 1, IF w[Len(w)] = FEND THEN Len(w) - 1 ELSE Len(w))

\* The body has a FESC, in the place of an escape, before a byte that is
\* neither TFEND nor TFESC.
RECURSIVE HasBadEscape(_)
HasBadEscape(b) ==
    IF Len(b) < 2 THEN FALSE
    ELSE IF b[1] # FESC THEN HasBadEscape(Tail(b))
    ELSE IF b[2] \in {TFEND, TFESC} THEN HasBadEscape(Tail(Tail(b)))
    ELSE TRUE

\* The bytes a body stands for, a bad escape standing for nothing.
RECURSIVE KissDecode(_)
KissDecode(b) ==
    IF b = <<>> THEN <<>>
    ELSE IF b[1] # FESC THEN <<b[1]>> \o KissDecode(Tail(b))
    ELSE IF Len(b) = 1 THEN <<>>
    ELSE (IF b[2] = TFEND THEN <<FEND>> ELSE IF b[2] = TFESC THEN <<FESC>> ELSE <<>>)
            \o KissDecode(Tail(Tail(b)))

Decoded == kiss_pc = "decoded" /\ Len(kiss_wire) >= 2

\* C15 as stated: when the input to kiss_unwrap has FESC followed by a byte
\* other than TFEND or TFESC, no decoded bytes are delivered for the frame.
C15_Original ==
    (Decoded /\ HasBadEscape(KissBody(kiss_wire))) => kiss_out = <<>>

\* C15: KISS bad escape.  When the body of the input to kiss_unwrap has FESC
\* followed by a byte other than TFEND or TFESC, kiss_unwrap reports a KISS
\* protocol error, leaves out the FESC and the byte after it, and delivers
\* the other decoded bytes of the frame.
C15_BadEscape ==
    (Decoded /\ HasBadEscape(KissBody(kiss_wire))) =>
        /\ \E i \in 1..Len(kiss_err) : kiss_err[i] = "KISS protocol error.  Found byte after FESC."
        /\ kiss_out = KissDecode(KissBody(kiss_wire))

\* A frame with a bad escape between two good bytes: both were delivered.
C15_Witness ==
    /\ Decoded
    /\ kiss_wire = <<1, FESC, 0, TFEND, FEND>>
    /\ kiss_out = <<1, TFEND>>
    /\ kiss_err = <<"KISS protocol error.  Found byte after FESC.">>

AliasMatch(pkt, from_chan, to_chan) ==
    /\ FirstUnused(pkt) >= 2
    /\ regexec(cfg.alias[from_chan][to_chan], AddrText(pkt.addrs[FirstUnused(pkt) + 1])) = 0

\* C17 as stated: the first unused repeater matches the alias pattern and is
\* not mycall_rec, the source is not mycall_rec and the packet is not a
\* duplicate; then a copy with that address replaced is emitted.
C17_Original ==
    Called =>
        \A e \in Evals :
            (/\ AliasMatch(last.before, last.from_chan, e.to_chan)
             /\ ~ExplicitMe(last.before, last.from_chan)
             /\ ~SourceIsMe(last.before, last.from_chan)
             /\ ~QueuedWithin(last.emitted, last.before, e.to_chan, last.now)) =>
                /\ e.result # NULL
                /\ e.out = [last.before EXCEPT
                              !.addrs[FirstUnused(last.before) + 1] = MyCallAddr(e.to_chan, 1)]

\* C17: alias match.  If the first unused repeater r matches the alias
\* pattern, r is not mycall_rec, the source is not mycall_rec, the packet is
\* not a duplicate and no filter configured for the direction rejects it,
\* the packet queued has address r replaced by mycall_xmit with H = 1 and
\* nothing else changed: the same number of addresses, the same SSIDs and H
\* bits elsewhere.  This is so also when r matches the wide pattern.
C17_AliasMatch ==
    Called =>
        \A e \in Evals :
            (/\ AliasMatch(last.before, last.from_chan, e.to_chan)
             /\ ReachesRules(last.before, last.from_chan, e.to_chan)) =>
                /\ e.result # NULL
                /\ Len(e.out.addrs) = Len(last.before.addrs)
                /\ e.out = [last.before EXCEPT
                              !.addrs[FirstUnused(last.before) + 1] = MyCallAddr(e.to_chan, 1)]

\* WIDE2-2 is an alias and a WIDEn-N address: A>B,FOO*,WIDE2-2,WIDE1-1 has
\* become A>B,FOO*,N0CALL-2*,WIDE1-1 for channel 1, not a traced path.
C17_Witness ==
    /\ Called
    /\ regexec(cfg.wide[0][1], "WIDE2-2") = 0
    /\ regexec(cfg.alias[0][1], "WIDE2-2") = 0
    /\ last.before = Packet(SourceA, <<Addr("FOO", 0, 1), Addr("WIDE2", 2, 0), Addr("WIDE1", 1, 0)>>, "hi")
    /\ \E e \in Evals :
          /\ e.to_chan = 1
          /\ e.out = Packet(SourceA, <<Addr("FOO", 0, 1), Addr("N0CALL", 2, 1), Addr("WIDE1", 1, 0)>>, "hi")

\* pkt gets as far as the ATGP hack for to_chan: no earlier rule takes it,
\* its first unused repeater matches the wide pattern and begins with the
\* atgp prefix, and the SSID of that repeater is 1 to 7.
ReachesAtgp(pkt, from_chan, to_chan) ==
    /\ ReachesRules(pkt, from_chan, to_chan)
    /\ ~AliasMatch(pkt, from_chan, to_chan)
    /\ PreemptHit(pkt, from_chan, to_chan, FirstUnused(pkt)) = -1
    /\ regexec(cfg.wide[from_chan][to_chan], AddrText(pkt.addrs[FirstUnused(pkt) + 1])) = 0
    /\ Len(cfg.atgp[from_chan][to_chan]) > 0
    /\ strncasecmp0(AddrText(pkt.addrs[FirstUnused(pkt) + 1]),
                    cfg.atgp[from_chan][to_chan], Len(cfg.atgp[from_chan][to_chan]))
    /\ pkt.addrs[FirstUnused(pkt) + 1].ssid \in 1..7

\* The addresses of a from position n + 1 on that have H = 0.
UnusedAfter(a, n) == SelectSeq(SubSeq(a, n + 1, Len(a)), LAMBDA x : x.h = 0)

\* C18: ATGP result shape.  In the ATGP special case, for every path of up
\* to 8 repeaters, the packet queued has every used repeater removed,
\* mycall_xmit with H = 1 at REPEATER_1 and the matched address, with its
\* SSID one less, directly after it at REPEATER_2.
C18_AtgpShape ==
    Called =>
        \A e \in Evals :
            ReachesAtgp(last.before, last.from_chan, e.to_chan) =>
                /\ e.result # NULL
                /\ Len(e.out.addrs) >= 4
                /\ e.out.addrs[3] = MyCallAddr(e.to_chan, 1)
                /\ e.out.addrs[4].call = last.before.addrs[FirstUnused(last.before) + 1].call
                /\ e.out.addrs[4].ssid = last.before.addrs[FirstUnused(last.before) + 1].ssid - 1
                /\ SubSeq(e.out.addrs, 5, Len(e.out.addrs)) =
                       UnusedAfter(last.before.addrs, FirstUnused(last.before) + 1)

\* The path of pkt is still full when the used repeaters before its first
\* unused one have been taken out: there is no room for another address.
AtgpFull(pkt) == Len(pkt.addrs) - (FirstUnused(pkt) - AX25_REPEATER_1) >= AX25_MAX_ADDRS

\* Where the matched address is in the packet queued, counted from 1: after
\* mycall_xmit, or first of the repeaters when mycall_xmit found no room.
AtgpPos(pkt) == IF AtgpFull(pkt) THEN 3 ELSE 4

\* C19 as stated: in the ATGP special case the H bit of the matched address
\* is 0 in the packet queued, when the decremented SSID is 0 and when it is
\* 1 to 6.
C19_Original ==
    Called =>
        \A e \in Evals :
            ReachesAtgp(last.before, last.from_chan, e.to_chan) =>
                /\ e.result # NULL
                /\ Len(e.out.addrs) >= AtgpPos(last.before)
                /\ e.out.addrs[AtgpPos(last.before)].h = 0

\* C19: ATGP exhausted hop.  In the ATGP special case, when the decremented
\* SSID of the matched repeater is 0 the H bit of that address is 1 in the
\* packet queued: the used-up address stays in the path, marked used.  When
\* the SSID stays in 1..6 the H bit is 0, except on a path that is still full
\* after the used repeaters are removed: there mycall_xmit is not inserted
\* and the H bit meant for it is set on the matched address.
C19_AtgpHBit ==
    Called =>
        \A e \in Evals :
            ReachesAtgp(last.before, last.from_chan, e.to_chan) =>
                /\ e.result # NULL
                /\ Len(e.out.addrs) >= AtgpPos(last.before)
                /\ e.out.addrs[AtgpPos(last.before)].call =
                      last.before.addrs[FirstUnused(last.before) + 1].call
                /\ e.out.addrs[AtgpPos(last.before)].ssid =
                      last.before.addrs[FirstUnused(last.before) + 1].ssid - 1
                /\ e.out.addrs[AtgpPos(last.before)].h =
                      (IF last.before.addrs[FirstUnused(last.before) + 1].ssid = 1
                          \/ AtgpFull(last.before) THEN 1 ELSE 0)

\* With atgp WIDE1, A>B,FOO*,WIDE1-1 has become A>B,N0CALL-1*,WIDE1*: the
\* used repeater is gone and the exhausted WIDE1 is marked used.
C19_Witness ==
    /\ Called
    /\ cfg.atgp[0][0] = "WIDE1"
    /\ last.before = Packet(SourceA, <<Addr("FOO", 0, 1), Addr("WIDE1", 1, 0)>>, "hi")
    /\ \E e \in Evals :
          /\ e.to_chan = 0
          /\ e.out = Packet(SourceA, <<Addr("N0CALL", 1, 1), Addr("WIDE1", 0, 1)>>, "hi")

\* C20: filter reject.  When a filter is configured for (from_chan, to_chan)
\* and rejects the packet, digipeater() queues nothing for that to_chan,
\* adds no entry for it to the dedupe cache and takes none that is still
\* young away, and leaves the counter of (from_chan, to_chan) as it was,
\* also when the first unused repeater is mycall_rec; and digipeat_match is
\* still evaluated for every enabled to_chan.
C20_FilterReject ==
    [][(last.pp = NULL /\ last'.pp # NULL) =>
         \A c \in Chans :
            ~FilterPasses(last'.before, last'.from_chan, c) =>
                /\ tq'[c] = tq[c]
                /\ digi_count'[last'.from_chan][c] = digi_count[last'.from_chan][c]
                /\ {e \in dedupe' : e.chan = c} \subseteq {e \in dedupe : e.chan = c}
                /\ \A e \in dedupe \ dedupe' :
                      e.chan = c => ~dedupe_young(e, cfg.dedupe_time, now)
                /\ \A d \in Chans :
                      cfg.enabled[last'.from_chan][d] =>
                         \E i \in 1..Len(last'.evals) : last'.evals[i].to_chan = d]_vars

\* A packet sent explicitly via my call was rejected by the filter for
\* channel 0, where nothing was queued, and queued for channel 1.
C20_Witness ==
    /\ Called
    /\ ExplicitMe(last.before, last.from_chan)
    /\ ~FilterPasses(last.before, last.from_chan, 0)
    /\ \E e \in Evals : e.to_chan = 0 /\ e.result = NULL
    /\ \E e \in Evals : e.to_chan = 1 /\ e.result # NULL
    /\ DedupeEntry(last.before, 0, last.now) \notin dedupe
    /\ DedupeEntry(last.before, 1, last.now) \in dedupe
    /\ digi_count[last.from_chan][0] = 0

\* The calls that send a frame on: the IGate, digi_regen and the two
\* digipeaters.
RetransmitCalls == {"igate_send_rec_packet", "digi_regen", "digipeater", "cdigipeater"}

\* The information part of the frame being dispatched starts with t and is
\* two bytes or longer.
TouchToneText == Len(heap[rx.pp].info) >= 2 /\ SubSeq(heap[rx.pp].info, 1, 1) = "t"

\* C21 as stated: on a channel other than the IGate channel a frame is given
\* to the APRStt gateway exactly when subchan is -1, and every frame with
\* another subchan takes the path of IGate, digi_regen and the digipeaters.
C21_Original ==
    (Dispatched /\ rx.chan # cfg.igate_vchannel) =>
        /\ ("aprs_tt_sequence" \in Calls) <=> (disp.subchan = -1)
        /\ disp.subchan # -1 => "digi_regen" \in Calls

\* C21: APRStt routing.  On a channel other than the virtual IGate channel a
\* frame is given to the APRStt gateway exactly when the gateway is enabled,
\* the information part has two bytes or more and either subchan is -1 or
\* the information part starts with t.  A frame with subchan other than -1
\* takes the path of IGate, digi_regen and the digipeaters unless the
\* gateway is enabled and its information part is such a t text.  A frame
\* of the DTMF decoder is never given to the IGate, to digi_regen or to a
\* digipeater.
C21_AprsTtRouting ==
    (Dispatched /\ rx.chan # cfg.igate_vchannel) =>
        /\ ("aprs_tt_sequence" \in Calls) <=>
              (/\ cfg.gateway_enabled
               /\ Len(heap[rx.pp].info) >= 2
               /\ (disp.subchan = -1 \/ TouchToneText))
        /\ ("digi_regen" \in Calls) <=>
              (disp.subchan # -1 /\ ~(cfg.gateway_enabled /\ TouchToneText))
        /\ disp.subchan = -1 =>
              (Calls \cap RetransmitCalls = {} /\ last.evals = <<>> /\ emitted = last.emitted)

\* A frame of a radio decoder whose information part is t1 came in with the
\* gateway enabled: it was given to the APRStt gateway and not to digi_regen
\* or a digipeater.
C21_Witness ==
    /\ Dispatched
    /\ rx.chan # cfg.igate_vchannel
    /\ disp.subchan = 0
    /\ heap[rx.pp].info = "t1"
    /\ cfg.gateway_enabled
    /\ "aprs_tt_sequence" \in Calls
    /\ Calls \cap RetransmitCalls = {}

\* C22: IGate virtual channel.  A frame received on the virtual IGate
\* channel is sent to the AGW and KISS clients and nothing else is done with
\* it: it is not given to APRStt, the IGate, digi_regen or a digipeater,
\* digipeat_match is not evaluated and nothing is queued or counted.
C22_IgateChannel ==
    (Dispatched /\ rx.chan = cfg.igate_vchannel) =>
        /\ disp.calls = ClientCalls
        /\ last.evals = <<>>
        /\ emitted = last.emitted
        /\ dedupe = last.dedupe

\* An APRS frame with a good CRC and a path that could be digipeated came in
\* on the IGate channel of a station that regenerates, and only the clients
\* got it.
C22_Witness ==
    /\ Dispatched
    /\ rx.chan = cfg.igate_vchannel
    /\ cfg.regen[rx.chan][rx.chan]
    /\ CrcValid
    /\ disp.subchan = 0
    /\ heap[rx.pp].info = "hi"
    /\ ax25_is_aprs(heap, rx.pp)
    /\ disp.calls = ClientCalls

\* The place of call f in the calls made for the frame, 0 if it was not made.
CallPos(f) ==
    IF f \in Calls THEN CHOOSE i \in 1..Len(disp.calls) : disp.calls[i] = f ELSE 0

\* Call f was not made, or call g was not made, or f came before g.
CallBefore(f, g) == (f \in Calls /\ g \in Calls) => CallPos(f) < CallPos(g)

\* C23: dispatch order.  For each received frame the four client calls
\* (AGW, KISS TCP, KISS serial, KISS pty) come first, every retransmission
\* step comes after them, and the retransmission steps come in the order
\* IGate, digi_regen, APRS digipeater, connected-mode digipeater.  Copies
\* are put on a transmit queue only in a dispatch that made those four
\* calls and a later call of digi_regen or digipeater.
C23_DispatchOrder ==
    /\ [](Dispatched =>
            /\ SubSeq(disp.calls, 1, 4) = ClientCalls
            /\ \A f \in RetransmitCalls : f \in Calls => CallPos(f) > 4
            /\ CallBefore("igate_send_rec_packet", "digi_regen")
            /\ CallBefore("digi_regen", "digipeater")
            /\ CallBefore("digipeater", "cdigipeater")
            /\ CallBefore("igate_send_rec_packet", "cdigipeater"))
    /\ [][(rx.pp # NULL /\ ~rx.done /\ rx'.done /\ TqHandles(tq') # TqHandles(tq))
           => /\ SubSeq(disp'.calls, 1, 4) = ClientCalls
              /\ \E i \in 5..Len(disp'.calls) : disp'.calls[i] \in {"digi_regen", "digipeater"}]_vars

\* A frame went through all four retransmission steps and a copy of it is
\* on a transmit queue.
C23_Witness ==
    /\ Dispatched
    /\ Len(disp.calls) = 8
    /\ RetransmitCalls \subseteq Calls
    /\ \E i \in 1..Len(last.evals) : last.evals[i].result \in TqHandles(tq)

\* A pattern that regexec runs and that matches nothing.
NoMatchPattern == [branches |-> {}, err |-> 0]

\* preg, or the pattern that matches nothing if regexec fails on preg.
Quiet(preg) == IF preg.err \notin {0, REG_NOMATCH} THEN NoMatchPattern ELSE preg

\* Configuration c with every failing pattern replaced by one that matches
\* nothing.
QuietConfig(c) ==
    [c EXCEPT !.alias = [f \in Chans |-> [t \in Chans |-> Quiet(c.alias[f][t])]],
              !.wide = [f \in Chans |-> [t \in Chans |-> Quiet(c.wide[f][t])]]]

\* What digipeater() would do with the frame at hand if the failing patterns
\* matched nothing.
QuietDigipeater ==
    digipeater(QuietConfig(cfg),
               [heap |-> heap, dedupe |-> dedupe, tq |-> tq,
                digi_count |-> digi_count, evals |-> <<>>],
               now, rx.chan, rx.pp)

\* C24: a regex failure is not fatal.  When regexec fails on the alias or
\* the wide pattern with an error other than REG_NOMATCH, every call of
\* digipeater(), the first and the later ones, does what it would do if
\* that pattern matched nothing: the other rules are tried and queue,
\* duplicate history and counters come out the same.
C24_RegexFailure ==
    [][(last.pp = NULL /\ last'.pp # NULL)
        => /\ tq' = QuietDigipeater.tq
           /\ heap' = QuietDigipeater.heap
           /\ dedupe' = QuietDigipeater.dedupe
           /\ digi_count' = QuietDigipeater.digi_count
           /\ last'.evals = QuietDigipeater.evals]_vars

\* regexec fails on the alias pattern, an earlier frame was digipeated all
\* the same, and now a WIDE1-1 frame has been digipeated by the wide rule.
C24_Witness ==
    /\ Called
    /\ cfg.alias[last.from_chan][last.from_chan].err = REG_ESPACE
    /\ last.emitted # {}
    /\ AddrText(last.before.addrs[FirstUnused(last.before) + 1]) = "WIDE1-1"
    /\ \E i \in 1..Len(last.evals) :
          /\ last.evals[i].result # NULL
          /\ last.evals[i].out.addrs[3] = MyCallAddr(last.evals[i].to_chan, 1)

\* Sequence a is the start of sequence b.
IsPrefix(a, b) == Len(a) <= Len(b) /\ SubSeq(b, 1, Len(a)) = a

\* The transmit thread of channel c takes a packet in this step.
Dequeues(c) ==
    Len(tq'[c][TQ_PRIO_0_HI]) + Len(tq'[c][TQ_PRIO_1_LO])
        < Len(tq[c][TQ_PRIO_0_HI]) + Len(tq[c][TQ_PRIO_1_LO])

\* C25: transmit queue order.  On every channel a packet is put at the back
\* of its queue and taken from the front, the packet taken comes from the
\* low priority queue only when the high priority queue is empty in that
\* moment, and a copy digipeated to the channel it came from goes to the
\* high priority queue, so it is sent before all cross-channel copies that
\* are waiting.
C25_QueueOrder ==
    [][\A c \in Chans :
          /\ Dequeues(c) =>
                IF tq[c][TQ_PRIO_0_HI] # <<>>
                THEN /\ tq'[c][TQ_PRIO_0_HI] = Tail(tq[c][TQ_PRIO_0_HI])
                     /\ tq'[c][TQ_PRIO_1_LO] = tq[c][TQ_PRIO_1_LO]
                ELSE /\ tq'[c][TQ_PRIO_1_LO] = Tail(tq[c][TQ_PRIO_1_LO])
                     /\ tq'[c][TQ_PRIO_0_HI] = <<>>
          /\ ~Dequeues(c) =>
                /\ IsPrefix(tq[c][TQ_PRIO_0_HI], tq'[c][TQ_PRIO_0_HI])
                /\ IsPrefix(tq[c][TQ_PRIO_1_LO], tq'[c][TQ_PRIO_1_LO])
          /\ (last.pp = NULL /\ last'.pp # NULL /\ c = last'.from_chan) =>
                \A i \in 1..Len(last'.evals) :
                    (last'.evals[i].to_chan = c /\ last'.evals[i].result # NULL) =>
                        /\ tq'[c][TQ_PRIO_0_HI] # <<>>
                        /\ last'.evals[i].result
                              = tq'[c][TQ_PRIO_0_HI][Len(tq'[c][TQ_PRIO_0_HI])]
                        /\ tq'[c][TQ_PRIO_1_LO] = tq[c][TQ_PRIO_1_LO]]_vars

\* A cross-channel copy was waiting on channel 0 when a frame received on
\* channel 0 was digipeated; the copy of that frame has been sent and freed
\* and the cross-channel copy is still waiting.
C25_Witness ==
    /\ Called
    /\ last.from_chan = 0
    /\ tq[0][TQ_PRIO_1_LO] # <<>>
    /\ tq[0][TQ_PRIO_0_HI] = <<>>
    /\ \E i \in 1..Len(last.evals) :
          /\ last.evals[i].to_chan = 0
          /\ last.evals[i].result # NULL
          /\ last.evals[i].result \notin DOMAIN heap

\* digipeater_get_count (from_chan, to_chan)
digipeater_get_count(from_chan, to_chan) == digi_count[from_chan][to_chan]

\* The number of copies the evaluations evals put on a queue of to_chan.
Appended(evals, to_chan) ==
    Cardinality({i \in 1..Len(evals) : evals[i].to_chan = to_chan /\ evals[i].result # NULL})

PreemptCase(to_chan, preempt) ==
    /\ cfg.preempt[last.from_chan][to_chan] = preempt
    /\ ReachesRules(last.before, last.from_chan, to_chan)
    /\ regexec(cfg.alias[last.from_chan][to_chan],
               AddrText(last.before.addrs[FirstUnused(last.before) + 1])) # 0
    /\ PreemptHit(last.before, last.from_chan, to_chan, FirstUnused(last.before)) # -1

\* C27: pre-empt DROP.  With preempt = DROP and a pre-empt hit at position
\* r2, the packet queued is the packet received without the repeaters at
\* REPEATER_1 to r2 - 1, used or not: destination and source, then
\* mycall_xmit with H = 1, then the addresses that followed r2, unchanged.
C27_PreemptDrop ==
    Called =>
        \A e \in Evals :
            LET P  == last.before
                r2 == PreemptHit(P, last.from_chan, e.to_chan, FirstUnused(P))
            IN  PreemptCase(e.to_chan, PREEMPT_DROP) =>
                    /\ e.result # NULL
                    /\ e.out = [P EXCEPT !.addrs =
                                  SubSeq(P.addrs, 1, 2)
                                  \o <<MyCallAddr(e.to_chan, 1)>>
                                  \o SubSeq(P.addrs, r2 + 2, Len(P.addrs))]

\* A>B,FOO*,WIDE1-1,N0CALL-1:hi came in under DROP: the used FOO and the
\* unused WIDE1-1 are both gone from the copy.
C27_Witness ==
    /\ Called
    /\ last.before = Packet(SourceA, <<Addr("FOO", 0, 1), Addr("WIDE1", 1, 0), Addr("N0CALL", 1, 0)>>, "hi")
    /\ \E e \in Evals :
          /\ PreemptCase(e.to_chan, PREEMPT_DROP)
          /\ e.to_chan = 0
          /\ e.out = Packet(SourceA, <<Addr("N0CALL", 1, 1)>>, "hi")

\* C28: pre-empt MARK.  With preempt = MARK and a pre-empt hit at position
\* r2, for every input path the packet queued has as many addresses as the
\* packet received, mycall_xmit with H = 1 at r2, and H = 1 on every
\* repeater before r2.
C28_PreemptMark ==
    Called =>
        \A e \in Evals :
            LET P  == last.before
                r2 == PreemptHit(P, last.from_chan, e.to_chan, FirstUnused(P))
            IN  PreemptCase(e.to_chan, PREEMPT_MARK) =>
                    /\ e.result # NULL
                    /\ Len(e.out.addrs) = Len(P.addrs)
                    /\ e.out.addrs[r2 + 1] = MyCallAddr(e.to_chan, 1)
                    /\ \A n \in AX25_REPEATER_1..(r2 - 1) : e.out.addrs[n + 1].h = 1

\* The number of FEND and FESC bytes in A.
Specials(A) == Cardinality({i \in 1..Len(A) : A[i] \in {FEND, FESC}})

\* C29: KISS length bound.  For every byte sequence A the length
\* kiss_encapsulate returns is len(A) + 2 + the number of FEND and FESC
\* bytes in A, which is at most 2 * len(A) + 2.
C29_KissLength ==
    kiss_pc # "idle" =>
        /\ Len(kiss_wire) = Len(kiss_in) + 2 + Specials(kiss_in)
        /\ Len(kiss_wire) <= 2 * Len(kiss_in) + 2

\* A block of FEND and FESC bytes only has been encoded: its frame is as
\* long as the bound allows.
C29_Witness ==
    /\ kiss_pc = "encoded"
    /\ Len(kiss_in) = MaxKissLen
    /\ \A i \in 1..Len(kiss_in) : kiss_in[i] = (IF i % 2 = 1 THEN FEND ELSE FESC)
    /\ Len(kiss_wire) = 2 * Len(kiss_in) + 2

\* cm108_set_gpio_pin has been called.
GpioCalled == hid.name # ""

\* The arguments of the call are good: a pin of 1 to 8 and a state of 0 or 1.
GpioValid == hid.num \in 1..8 /\ hid.state \in {0, 1}

\* The bytes with exactly one bit set.
OneBit == {Pow2(k) : k \in 0..7}

\* C30 as stated: with good arguments the report is written, whatever
\* becomes of open().
C30_Original ==
    (GpioCalled /\ GpioValid) =>
        /\ Len(hid.io) = 5
        /\ hid.io[4] = Pow2(hid.num - 1)

\* C30: CM108 GPIO report.  With num in 1..8 and state 0 or 1, and the
\* device opened, cm108_set_gpio_pin hands write() the five bytes 0, 0,
\* iodata, iomask, 0 with iomask = 1 << (num - 1), one bit, and iodata =
\* state << (num - 1), no bit outside the mask, and returns 0 if write()
\* took them and -1 if not; if the device cannot be opened it returns -1
\* and writes nothing.  With num outside 1..8 or state other than 0 and 1
\* it returns -1 and neither opens nor writes.
C30_GpioReport ==
    GpioCalled =>
        IF GpioValid
        THEN IF hid.opened
             THEN /\ hid.io = <<0, 0, hid.state * Pow2(hid.num - 1), Pow2(hid.num - 1), 0>>
                  /\ hid.io[4] \in OneBit
                  /\ hid.io[3] \in {0, hid.io[4]}
                  /\ hid.ret \in {0, -1}
             ELSE hid.ret = -1 /\ hid.io = <<>>
        ELSE hid.ret = -1 /\ hid.io = <<>> /\ ~hid.opened

\* Pin 8 was set low on a device that opened and took the report: the mask
\* is 128 and the data 0.
C30_Witness ==
    /\ GpioCalled
    /\ hid.num = 8
    /\ hid.state = 0
    /\ hid.opened
    /\ hid.ret = 0
    /\ hid.io = <<0, 0, 0, 128, 0>>

\* The first unused repeater of pkt as text; "" when there is none.
FirstUnusedText(pkt) ==
    IF FirstUnused(pkt) < 2 THEN "" ELSE AddrText(pkt.addrs[FirstUnused(pkt) + 1])

\* The SSID of the first unused repeater of pkt; 0 when there is none.
FirstUnusedSsid(pkt) ==
    IF FirstUnused(pkt) < 2 THEN 0 ELSE pkt.addrs[FirstUnused(pkt) + 1].ssid

\* One of the rules of digipeat_match applies to pkt on its way from
\* from_chan to to_chan.
SomeRule(pkt, from_chan, to_chan) ==
    /\ FirstUnused(pkt) >= 2
    /\ \/ FirstUnusedText(pkt) = MyCall(from_chan)
       \/ regexec(cfg.alias[from_chan][to_chan], FirstUnusedText(pkt)) = 0
       \/ /\ cfg.preempt[from_chan][to_chan] # PREEMPT_OFF
          /\ \E n \in (FirstUnused(pkt) + 1)..(Len(pkt.addrs) - 1) :
                \/ AddrText(pkt.addrs[n + 1]) = MyCall(from_chan)
                \/ regexec(cfg.alias[from_chan][to_chan], AddrText(pkt.addrs[n + 1])) = 0
       \/ /\ regexec(cfg.wide[from_chan][to_chan], FirstUnusedText(pkt)) = 0
          /\ FirstUnusedSsid(pkt) \in 1..7

\* C31: emission only by rule.  digipeat_match gives back a packet only if
\* the packet received has an unused repeater r and addr(r) is mycall_rec,
\* or addr(r) matches the alias pattern, or pre-empting is on and an address
\* after r is mycall_rec or matches the alias, or addr(r) matches the wide
\* pattern with an SSID of 1 to 7.  In every other case it gives back NULL.
C31_EmissionByRule ==
    Called =>
        \A e \in Evals :
            e.result # NULL => SomeRule(last.before, last.from_chan, e.to_chan)

\* The wide pattern matches WIDE2-8, the only unused repeater of the packet
\* received, and nothing was queued.
C31_Witness ==
    /\ Called
    /\ FirstUnusedText(last.before) = "WIDE2-8"
    /\ Len(last.before.addrs) = 3
    /\ Len(last.evals) = NumChans
    /\ \A e \in Evals :
          /\ regexec(cfg.wide[last.from_chan][e.to_chan], "WIDE2-8") = 0
          /\ e.result = NULL

\* Address a, whatever its H bit, is one of the addresses of pkt.
InPath(a, pkt) ==
    \E j \in 1..Len(pkt.addrs) : pkt.addrs[j].call = a.call /\ pkt.addrs[j].ssid = a.ssid

\* C32: rule precedence.  For each direction the rules are tried in a fixed
\* order and the first that applies decides: an alias match on the first
\* unused repeater r gives the packet with address r replaced, also when a
\* later address is my call or when r matches the wide pattern; and with
\* pre-empting on, a later address that is mycall_rec or matches the alias
\* gives the pre-empted packet, with mycall_xmit where that address was, no
\* address inserted and no SSID decremented, also when r matches the wide
\* pattern.
C32_RulePrecedence ==
    Called =>
        \A e \in Evals :
            LET P  == last.before
                r  == FirstUnused(P)
                r2 == PreemptHit(P, last.from_chan, e.to_chan, r)
            IN  ReachesRules(P, last.from_chan, e.to_chan) =>
                  /\ AliasMatch(P, last.from_chan, e.to_chan) =>
                        /\ e.result # NULL
                        /\ e.out = [P EXCEPT !.addrs[r + 1] = MyCallAddr(e.to_chan, 1)]
                  /\ (~AliasMatch(P, last.from_chan, e.to_chan) /\ r2 # -1) =>
                        /\ e.result # NULL
                        /\ Len(e.out.addrs) <= Len(P.addrs)
                        /\ Len(e.out.addrs) >= Len(P.addrs) - r2 + 2
                        /\ e.out.addrs[Len(e.out.addrs) - (Len(P.addrs) - (r2 + 1))]
                              = MyCallAddr(e.to_chan, 1)
                        /\ \A i \in 1..Len(e.out.addrs) :
                              e.out.addrs[i] = MyCallAddr(e.to_chan, 1) \/ InPath(e.out.addrs[i], P)

\* A>B,WIDE2-2,N0CALL-1 came in with pre-empting on: the copy is
\* A>B,N0CALL-1*, and WIDE2-2 was not decremented.
C32_Witness ==
    /\ Called
    /\ cfg.preempt[0][0] = PREEMPT_TRACE
    /\ regexec(cfg.wide[0][0], "WIDE2-2") = 0
    /\ last.before = Packet(SourceA, <<Addr("WIDE2", 2, 0), Addr("N0CALL", 1, 0)>>, "hi")
    /\ \E e \in Evals :
          /\ e.to_chan = 0
          /\ e.out = Packet(SourceA, <<Addr("N0CALL", 1, 1)>>, "hi")

\* C33: dedupe is per output channel.  A copy queued for one channel does
\* not keep the same (source, destination, info) from another channel: a
\* packet that passes filter, explicit-me and source tests and that a rule
\* applies to is queued for every enabled to_chan for which no copy was
\* queued within the dedupe time, whatever was queued for other channels;
\* and one digipeater() call evaluates, and so queues for, each to_chan at
\* most once.
C33_DedupePerChannel ==
    Called =>
        /\ \A e \in Evals :
              (/\ ReachesRules(last.before, last.from_chan, e.to_chan)
               /\ SomeRule(last.before, last.from_chan, e.to_chan)) => e.result # NULL
        /\ \A i, j \in 1..Len(last.evals) :
              last.evals[i].to_chan = last.evals[j].to_chan => i = j

\* A copy of the packet was queued for channel 0 less than the dedupe time
\* ago; now the packet came in on channel 1 and was queued for channel 1 and
\* not for channel 0.
C33_Witness ==
    /\ Called
    /\ last.from_chan = 1
    /\ QueuedWithin(last.emitted, last.before, 0, last.now)
    /\ ~QueuedWithin(last.emitted, last.before, 1, last.now)
    /\ \E e \in Evals : e.to_chan = 1 /\ e.result # NULL
    /\ \E e \in Evals : e.to_chan = 0 /\ e.result = NULL

\* pkt has 8 repeaters and its first unused one matches the wide pattern of
\* the direction with an SSID of 2 to 7.
FullWide(pkt, from_chan, to_chan) ==
    /\ Len(pkt.addrs) = AX25_MAX_ADDRS
    /\ FirstUnused(pkt) >= 2
    /\ regexec(cfg.wide[from_chan][to_chan], FirstUnusedText(pkt)) = 0
    /\ FirstUnusedSsid(pkt) \in 2..7

\* pkt with the SSID of its first unused repeater one less and nothing else
\* changed.
DecrementedInPlace(pkt) ==
    [pkt EXCEPT !.addrs[FirstUnused(pkt) + 1].ssid = @ - 1]

\* C34 as stated: whenever the first unused repeater matches the wide
\* pattern with SSID 2..7 and the packet has 8 repeaters, what is emitted is
\* the packet with that SSID decremented in place.
C34_Original ==
    Called =>
        \A e \in Evals :
            (FullWide(last.before, last.from_chan, e.to_chan) /\ e.result # NULL) =>
                e.out = DecrementedInPlace(last.before)

\* C34: WIDEn-N with a full path.  When the first unused repeater matches
\* the wide pattern with SSID n in 2..7, the packet has 8 repeaters already,
\* no earlier rule (filter, explicit-me, source, duplicate, alias, pre-empt)
\* takes the packet and the ATGP case does not apply, the packet queued has
\* that SSID decremented to n - 1 in place with H still 0, mycall_xmit
\* nowhere inserted and as many addresses as before.
C34_WideFullPath ==
    Called =>
        \A e \in Evals :
            (/\ FullWide(last.before, last.from_chan, e.to_chan)
             /\ ReachesWide(last.before, last.from_chan, e.to_chan)) =>
                /\ e.result # NULL
                /\ Len(e.out.addrs) = Len(last.before.addrs)
                /\ e.out.addrs[FirstUnused(last.before) + 1].h = 0
                /\ e.out = DecrementedInPlace(last.before)

\* WIDE2-2 followed by seven unused repeaters has become WIDE2-1 followed
\* by the same seven.
C34_Witness ==
    /\ Called
    /\ last.before = Packet(SourceA, <<Addr("WIDE2", 2, 0)>> \o UnusedFill(AX25_MAX_REPEATERS - 1), "hi")
    /\ \E e \in Evals :
          /\ ReachesWide(last.before, last.from_chan, e.to_chan)
          /\ e.out = Packet(SourceA, <<Addr("WIDE2", 1, 0)>> \o UnusedFill(AX25_MAX_REPEATERS - 1), "hi")

\* C35: path length invariant.  Every packet digipeat_match gives back has
\* at most 8 repeaters, 10 addresses, and at most one address more than the
\* packet it was given, for every input of up to 8 repeaters and every
\* rule, WIDE tracing and the ATGP insertion included.
C35_PathLength ==
    Called =>
        \A e \in Evals :
            e.result # NULL =>
                /\ Len(e.out.addrs) - 2 <= AX25_MAX_REPEATERS
                /\ Len(e.out.addrs) <= AX25_MAX_ADDRS
                /\ Len(e.out.addrs) <= Len(last.before.addrs) + 1

\* The ATGP case took a packet of 8 unused repeaters, for which its insert
\* of mycall_xmit has no room, and gave back a packet of 8 repeaters.
C35_Witness ==
    /\ Called
    /\ Len(last.before.addrs) = AX25_MAX_ADDRS
    /\ \E e \in Evals :
          /\ ReachesAtgp(last.before, last.from_chan, e.to_chan)
          /\ e.result # NULL
          /\ Len(e.out.addrs) = AX25_MAX_ADDRS

\* Two copies of one received frame text are in the history for one output
\* channel, queued at times less than the dedupe time apart.
QueuedTwice(to_chan) ==
    \E x \in emitted, y \in emitted :
        /\ x # y
        /\ x.to_chan = to_chan /\ y.to_chan = to_chan
        /\ x.pkt = y.pkt
        /\ x.time - y.time < cfg.dedupe_time /\ y.time - x.time < cfg.dedupe_time

\* C36: when two dispatcher threads run digipeater() concurrently on
\* byte-identical packets that both digipeat to the same to_chan, the dedupe
\* check and the dedupe_remember act as one atomic step: at most one copy is
\* queued for to_chan within the TTL.
C36_AtomicDedupe == \A to_chan \in Chans : ~QueuedTwice(to_chan)

\* Destination, source, control, PID and information part are the same.
SameFrame(a, b) ==
    /\ a.addrs[1] = b.addrs[1]
    /\ a.addrs[2] = b.addrs[2]
    /\ a.control = b.control
    /\ a.pid = b.pid
    /\ a.info = b.info

\* digi_regen is among the calls made for the frame.
RegenCalled(d) == \E j \in 1..Len(d.calls) : d.calls[j] = "digi_regen"

\* The regenerated copies among the handles of queue q.
RegenIn(q, q_old, q_new, evals) ==
    {i \in 1..Len(q) : q[i] \in RegenCopies(q_old, q_new, evals)}

\* C37: digipeating changes only the repeater list.  Every packet
\* digipeat_match gives back has the destination, source, control, PID and
\* information part of its input, and so the same dedupe signature.  A copy
\* queued by digi_regen is equal to the frame, repeater list included, and
\* there is one on the low priority queue of every to_chan with regen set,
\* and none anywhere else.
C37_RepeatersOnly ==
    [][(rx.pp # NULL /\ ~rx.done /\ rx'.done) =>
          /\ \A i \in 1..Len(last'.evals) :
                last'.evals[i].result # NULL =>
                    /\ SameFrame(last'.evals[i].out, last'.evals[i].seen)
                    /\ DedupeKey(last'.evals[i].out) = DedupeKey(last'.evals[i].seen)
          /\ \A h \in RegenCopies(tq, tq', last'.evals) : heap'[h] = heap[rx.pp]
          /\ \A to_chan \in Chans :
                /\ RegenIn(tq'[to_chan][TQ_PRIO_0_HI], tq, tq', last'.evals) = {}
                /\ Cardinality(RegenIn(tq'[to_chan][TQ_PRIO_1_LO], tq, tq', last'.evals))
                      = IF RegenCalled(disp') /\ cfg.regen[rx.chan][to_chan]
                        THEN 1 ELSE 0]_vars

\* A frame with an unused WIDE2-2 has been dispatched: a copy with the
\* repeater list changed is on the queue of channel 0, and the low priority
\* queue of the last channel holds a copy of the frame as it came in.
C37_Witness ==
    /\ Called
    /\ RegenCalled(disp)
    /\ \E e \in Evals :
          /\ e.to_chan = 0
          /\ e.result # NULL
          /\ e.out.addrs # e.seen.addrs
          /\ FirstUnusedText(e.seen) = "WIDE2-2"
    /\ \E i \in 1..Len(tq[NumChans - 1][TQ_PRIO_1_LO]) :
          /\ heap[tq[NumChans - 1][TQ_PRIO_1_LO][i]] = last.before
          /\ \A e \in Evals : e.result # tq[NumChans - 1][TQ_PRIO_1_LO][i]

\* The number of repeaters of pkt that have H = 0.
Unused(pkt) == Cardinality({n \in 3..Len(pkt.addrs) : pkt.addrs[n].h = 0})

\* The pair a hop makes smaller: repeaters still to go, and the hops the
\* first of them still asks for.
Measure(pkt) == <<Unused(pkt), FirstUnusedSsid(pkt)>>

LexLess(a, b) == a[1] < b[1] \/ (a[1] = b[1] /\ a[2] < b[2])

\* C38: hop progress.  For every emission of digipeat_match, the pair
\* (number of repeaters with H = 0, SSID of the first unused repeater) of the
\* output is lexicographically smaller than that of the input.
C38_HopProgress ==
    \A e \in Evals : e.result # NULL => LexLess(Measure(e.out), Measure(e.seen))

\* C39: invalid receive channel.  digipeater() called for a from_chan that
\* is out of range, or whose medium is neither radio nor network TNC,
\* queues nothing and leaves the dedupe history and the counters as they
\* were.
C39_InvalidChannel ==
    (Called /\ digipeater_invalid_channel(cfg, last.from_chan)) =>
        /\ \A e \in Evals : e.result = NULL
        /\ dedupe = last.dedupe
        /\ emitted = last.emitted

\* A text of upper case letters, digits and spaces.
ValidText(text) ==
    \A i \in 1..Len(text) : isupper(text[i]) \/ isdigit(text[i]) \/ text[i] = " "

\* The button, as a digit character, that has c on it.
Button(c) ==
    IF isdigit(c) THEN c ELSE row_digit(translate_first(translate_find(c))[1])

\* The letters (and the space) of a button.
Letters(d) == {translate_at(digit_row(d), col) : col \in 0..3} \ {NUL}

\* The places in text where a character and the next one use one button.
SamePairs(text) == {i \in 1..(Len(text) - 1) : Button(text[i]) = Button(text[i + 1])}

\* The places of the separator in buttons.
Separators(buttons) == {j \in 1..Len(buttons) : buttons[j] = "A"}

\* The places in buttons where a run of a digit begins.
RunStarts(buttons) ==
    {b \in 1..Len(buttons) : isdigit(buttons[b]) /\ (b = 1 \/ buttons[b - 1] # buttons[b])}

\* C40: touch tone multi-press round trip.  For every text T of upper case
\* letters, digits and spaces, tt_text_to_multipress(T) reports 0 errors and
\* tt_multipress_to_text of its output gives T back with 0 errors; the
\* separator A stands in the button string exactly between two consecutive
\* characters that use the same button, and no digit is repeated more times
\* than the number of its letters plus one.
C40_MultipressRoundTrip ==
    ValidText(tt.text) =>
        /\ tt.pc = "encoded" => tt.errors = 0
        /\ tt.pc = "decoded" => (tt.out = tt.text /\ tt.errors = 0)
        /\ tt.pc # "idle" =>
              /\ \A j \in Separators(tt.buttons) :
                    /\ 1 < j /\ j < Len(tt.buttons)
                    /\ isdigit(tt.buttons[j - 1])
                    /\ tt.buttons[j - 1] = tt.buttons[j + 1]
              /\ Cardinality(Separators(tt.buttons)) = Cardinality(SamePairs(tt.text))
              /\ \A b \in RunStarts(tt.buttons) :
                    multipress_run(tt.buttons, b, tt.buttons[b])
                        <= Cardinality(Letters(tt.buttons[b])) + 1

\* A text with a digit in it and with two characters in a row on one button
\* has gone to buttons, with a separator, and back.
C40_Witness ==
    /\ tt.pc = "decoded"
    /\ ValidText(tt.text)
    /\ \E i \in 1..Len(tt.text) : isdigit(tt.text[i])
    /\ \E i \in 1..Len(tt.text) : isupper(tt.text[i])
    /\ SamePairs(tt.text) # {}
    /\ Separators(tt.buttons) # {}
    /\ tt.out = tt.text

====
